---- MODULE Spec2Model ----
(***************************************************************************)
(* A state-machine model of zenoh_ros2_sdk: the ZenohSession singleton and *)
(* its id allocators (session.py), the close() protocol of the three       *)
(* endpoints (publisher.py, subscriber.py, service_server.py), the         *)
(* publisher's sequence numbering (publisher.py) and the service server's  *)
(* query handler (service_server.py).                                      *)
(*                                                                         *)
(* Every Python statement that reads or writes shared state is one step of *)
(* the thread that runs it, so that the interleavings the interpreter      *)
(* allows between two statements are interleavings of the model.           *)
(***************************************************************************)
EXTENDS Integers, Sequences, FiniteSets, TLC

\* ------------------------------------------------------------------ bounds
\* Threads that call into the session concurrently.
NThreads == 3
\* Allocator calls (get_next_node_id / get_next_entity_id) made in a run.
MaxIdCalls == 4
\* Threads that call close() on the endpoint, and close() calls made in a run.
NClosers == 2
MaxCloseCalls == 3
\* Threads that call publish() on the publisher, and publish() calls made in a run.
NPublishers == 2
MaxPublish == 3
\* Queries delivered to the service server, each handled on its own thread.
MaxQueries == 2
\* Samples handed to the subscriber (live ones and history replies together).
MaxSamples == 2
\* ZenohSession.close() calls made in a run.
MaxSessionCloses == 4
\* Threads that call register_message_type, and calls made in a run.
NRegThreads == 2
MaxRegCalls == 3
\* Domains run over 0..MaxDomain.
MaxDomain == 3
\* Messages one publisher publishes in a run.
MaxSent == 2
\* Type names have up to MaxParts parts; mangled names up to MaxNameLen characters.
MaxParts == 4
MaxNameLen == 4

\* ZenohSession._instance = None (session.py:13): the empty singleton slot.
\* Session objects are numbered 1, 2, ... in the order zenoh.open made them.
NoInstance == 0

Threads == 1..NThreads

\* The (router_ip, router_port) pairs callers pass: the default and another.
DefaultRouter == [router_ip |-> "127.0.0.1", router_port |-> 7447]
Routers == {DefaultRouter, [router_ip |-> "10.0.0.2", router_port |-> 7447]}

VARIABLES
    \* ---- ZenohSession class state (session.py:13-14)
    instance,       \* cls._instance: NoInstance or the number of a session object
    clsLock,        \* holder of cls._lock, 0 when free
    openCount,      \* calls of zenoh.open made so far (session.py:21)
    giPc,           \* giPc[t]: where thread t is inside get_instance
    giRet,          \* giRet[t]: what get_instance returned to thread t
    giArg,          \* giArg[t]: the (router_ip, router_port) thread t passed
    connected,      \* connected[i]: the router session object i was opened to
    \* ---- one ZenohSession object's allocators (session.py:24-26, 62-74)
    nodeCounter,    \* self._node_counter
    entityCounter,  \* self._entity_counter
    sessLock,       \* holder of self._lock, 0 when free
    idPc,           \* idPc[t]: where thread t is inside get_next_*_id
    idKind,         \* idKind[t]: "node" or "entity", the allocator t is in
    idLocal,        \* idLocal[t]: the local node_id / entity_id
    idTmp,          \* idTmp[t]: the value loaded by "+= 1" before it is stored
    idReturned,     \* idReturned[k]: the values allocator k returned, in return order
    idCalls,        \* allocator calls started so far
    \* ---- one endpoint object and the threads inside its close()
    epKind,         \* its class: "pub", "sub" or "srv"
    closed,         \* self._closed
    handle,         \* handle[x]: attribute x (a token or the data entity) is not None
    declared,       \* declared[x]: x is declared in the Zenoh session
    undCalls,       \* undCalls[x]: calls of x.undeclare() made so far
    cPc,            \* cPc[t]: where thread t is inside close(): [phase, idx]
    cFailed,        \* cFailed[t]: an undeclare raised inside t's current close()
    cLate,          \* cLate[t]: t's current close() began after a close() had returned
    cResult,        \* cResult[t]: how t's last close() ended
    cReturned,      \* a close() of the endpoint has returned
    cOverlap,       \* two close() calls of the endpoint have overlapped in time
    cCalls,         \* close() calls started so far
    \* ---- one ROS2Publisher and the threads inside its publish()
    sequence_number,\* self.sequence_number
    wire,           \* the attachments of the samples put so far, in put order
    pPc,            \* pPc[t]: where thread t is inside publish()
    pAtt,           \* pAtt[t]: the local attachment
    pTmp,           \* pTmp[t]: the value loaded by "+= 1" before it is stored
    pSeqAtCall,     \* pSeqAtCall[t]: sequence_number when t's publish() began
    pResult,        \* pResult[t]: how t's last publish() ended
    pOverlap,       \* two publish() calls have overlapped in time
    pCalls,         \* publish() calls started so far
    \* ---- one ROS2ServiceServer and the queries inside its _query_handler
    qry,            \* qry[q]: the query, the handler's locals and what it replied
    \* ---- one ROS2Subscriber: its constructor and the samples it is handed
    subPc,          \* where the constructor is
    subQos,         \* the qos argument of the constructor
    qos_profile,    \* self.qos_profile
    gets,           \* the gets issued so far (liveliness.get, session.get), in order
    publishers,     \* the list _discover_publishers returned
    hIdx,           \* publishers whose history get has been completed
    smp,            \* smp[s]: the s-th sample handed to _process_sample
    \* ---- one ZenohSession object and the threads inside its close()
    session_open,   \* the Zenoh session behind self.session is open
    sessCloseCalls, \* calls of self.session.close() made so far
    self_instance,  \* the object's own _instance attribute: "unset" or "None"
    scPc,           \* scPc[t]: where thread t is inside ZenohSession.close()
    scResult,       \* scResult[t]: how t's last close() ended
    scCalls,        \* close() calls started so far
    \* ---- one ZenohSession object's type store and register_message_type
    registered_types, \* self._registered_types: name -> definition, "" when absent
    store_types,    \* self.store.types: name -> class object, 0 when absent
    store_defs,     \* the field definitions the store holds: name -> definition
    classCount,     \* class objects generated so far
    loaded_types,   \* the message registry's _loaded_types
    rPc,            \* rPc[t]: where thread t is inside register_message_type
    rArg,           \* rArg[t]: its arguments
    rSeen,          \* rSeen[t]: what was registered under the name when the call began
    rRet,           \* rRet[t]: how t's last call ended
    rCalls,         \* register_message_type calls started so far
    \* ---- one call of a function of utils.py or of a constructor's computation
    fnName,         \* the function called, "none" when this state is not used
    fnArgs,         \* its arguments
    fnDone,         \* the call has returned or raised
    fnResult,       \* what it returned, or how it raised
    \* ---- publishers and one subscriber on a session
    dConfig,        \* dConfig[p]: the domain and topic publisher p was built with
    dSequence,      \* dSequence[p]: publisher p's sequence_number, its puts so far
    dFlight,        \* dFlight[p]: p's samples Zenoh has yet to hand to the listener
    dReceived,      \* the messages the subscriber's callback was called with
    \* ---- the constructor of the endpoint
    ctorPc          \* where the constructor is: "new", ..., "returned" or "raised"

instVars == <<instance, clsLock, openCount, giPc, giRet, giArg, connected>>
idVars == <<nodeCounter, entityCounter, sessLock, idPc, idKind, idLocal, idTmp,
            idReturned, idCalls>>
closeVars == <<epKind, closed, handle, declared, undCalls, cPc, cFailed, cLate,
               cResult, cReturned, cOverlap, cCalls>>
pubVars == <<sequence_number, wire, pPc, pAtt, pTmp, pSeqAtCall, pResult, pOverlap, pCalls>>
srvVars == <<qry>>
subVars == <<subPc, subQos, qos_profile, gets, publishers, hIdx, smp>>
sessVars == <<session_open, sessCloseCalls, self_instance, scPc, scResult, scCalls>>
regVars == <<registered_types, store_types, store_defs, classCount, loaded_types,
             rPc, rArg, rSeen, rRet, rCalls>>
fnVars == <<fnName, fnArgs, fnDone, fnResult>>
dlvVars == <<dConfig, dSequence, dFlight, dReceived>>
ctorVars == <<ctorPc>>
vars == <<instVars, idVars, closeVars, pubVars, srvVars, subVars, sessVars, regVars, fnVars,
          dlvVars, ctorVars>>

\* ------------------------------------------- ZenohSession.get_instance
InitInstance ==
    /\ instance = NoInstance
    /\ clsLock = 0
    /\ openCount = 0
    /\ giPc = [t \in Threads |-> "start"]
    /\ giRet = [t \in Threads |-> NoInstance]
    /\ giArg = [t \in Threads |-> DefaultRouter]
    /\ connected = <<>>

\* session.py:34-36  get_instance(router_ip, router_port) is called;
\* "if cls._instance is None:" (the check outside the lock)
GI_OuterCheck(t) ==
    /\ giPc[t] = "start"
    /\ \E router \in Routers : giArg' = [giArg EXCEPT ![t] = router]
    /\ giPc' = [giPc EXCEPT ![t] = IF instance = NoInstance THEN "acquire" ELSE "return"]
    /\ UNCHANGED <<instance, clsLock, openCount, giRet, connected>>

\* session.py:37  "with cls._lock:" blocks until the class lock is free
GI_Acquire(t) ==
    /\ giPc[t] = "acquire"
    /\ clsLock = 0
    /\ clsLock' = t
    /\ giPc' = [giPc EXCEPT ![t] = "inner"]
    /\ UNCHANGED <<instance, openCount, giRet, giArg, connected>>

\* The inner check dropped: every thread that got past the outer check constructs.
GI_InnerCheck_NoRecheck(t) ==
    /\ giPc[t] = "inner"
    /\ giPc' = [giPc EXCEPT ![t] = "construct"]
    /\ UNCHANGED <<instance, clsLock, openCount, giRet, giArg, connected>>

\* session.py:38  "if cls._instance is None:" (the check under the lock)
GI_InnerCheck(t) ==
    /\ giPc[t] = "inner"
    /\ giPc' = [giPc EXCEPT ![t] = IF instance = NoInstance THEN "construct" ELSE "release"]
    /\ UNCHANGED <<instance, clsLock, openCount, giRet, giArg, connected>>

\* session.py:39 with 16-31  "cls._instance = cls(router_ip, router_port)":
\* __init__ opens the Zenoh session to tcp/<router_ip>:<router_port>
\* (zenoh.open, lines 17-21), then the slot is assigned.
GI_Construct(t) ==
    /\ giPc[t] = "construct"
    /\ openCount' = openCount + 1
    /\ instance' = openCount + 1
    /\ connected' = Append(connected, giArg[t])
    /\ giPc' = [giPc EXCEPT ![t] = "release"]
    /\ UNCHANGED <<clsLock, giRet, giArg>>

\* session.py:37-39  leaving the with block releases the class lock
GI_Release(t) ==
    /\ giPc[t] = "release"
    /\ clsLock' = 0
    /\ giPc' = [giPc EXCEPT ![t] = "return"]
    /\ UNCHANGED <<instance, openCount, giRet, giArg, connected>>

\* session.py:40  "return cls._instance"
GI_Return(t) ==
    /\ giPc[t] = "return"
    /\ giRet' = [giRet EXCEPT ![t] = instance]
    /\ giPc' = [giPc EXCEPT ![t] = "done"]
    /\ UNCHANGED <<instance, clsLock, openCount, giArg, connected>>

NextInstance ==
    \E t \in Threads :
        \/ GI_OuterCheck(t) /\ UNCHANGED <<idVars, closeVars, pubVars, srvVars, subVars, sessVars, regVars, fnVars, dlvVars, ctorVars>>
        \/ GI_Acquire(t) /\ UNCHANGED <<idVars, closeVars, pubVars, srvVars, subVars, sessVars, regVars, fnVars, dlvVars, ctorVars>>
        \/ GI_InnerCheck(t) /\ UNCHANGED <<idVars, closeVars, pubVars, srvVars, subVars, sessVars, regVars, fnVars, dlvVars, ctorVars>>
        \/ GI_Construct(t) /\ UNCHANGED <<idVars, closeVars, pubVars, srvVars, subVars, sessVars, regVars, fnVars, dlvVars, ctorVars>>
        \/ GI_Release(t) /\ UNCHANGED <<idVars, closeVars, pubVars, srvVars, subVars, sessVars, regVars, fnVars, dlvVars, ctorVars>>
        \/ GI_Return(t) /\ UNCHANGED <<idVars, closeVars, pubVars, srvVars, subVars, sessVars, regVars, fnVars, dlvVars, ctorVars>>

\* ------------------------- ZenohSession.get_next_node_id / get_next_entity_id
InitIds ==
    /\ nodeCounter = 0
    /\ entityCounter = 0
    /\ sessLock = 0
    /\ idPc = [t \in Threads |-> "idle"]
    /\ idKind = [t \in Threads |-> "node"]
    /\ idLocal = [t \in Threads |-> 0]
    /\ idTmp = [t \in Threads |-> 0]
    /\ idReturned = [k \in {"node", "entity"} |-> <<>>]
    /\ idCalls = 0

Counter(k) == IF k = "node" THEN nodeCounter ELSE entityCounter

\* A thread calls get_next_node_id (session.py:62) or get_next_entity_id (session.py:69)
Id_Call(t, k) ==
    /\ idPc[t] = "idle"
    /\ idCalls < MaxIdCalls
    /\ idCalls' = idCalls + 1
    /\ idKind' = [idKind EXCEPT ![t] = k]
    /\ idPc' = [idPc EXCEPT ![t] = "acquire"]
    /\ UNCHANGED <<nodeCounter, entityCounter, sessLock, idLocal, idTmp, idReturned>>

\* No mutual exclusion: the with block is entered whoever holds the lock.
Id_Acquire_NoMutex(t) ==
    /\ idPc[t] = "acquire"
    /\ sessLock' = t
    /\ idPc' = [idPc EXCEPT ![t] = "read"]
    /\ UNCHANGED <<nodeCounter, entityCounter, idKind, idLocal, idTmp, idReturned, idCalls>>

\* session.py:64 / 71  "with self._lock:" blocks until the session lock is free
Id_Acquire(t) ==
    /\ idPc[t] = "acquire"
    /\ sessLock = 0
    /\ sessLock' = t
    /\ idPc' = [idPc EXCEPT ![t] = "read"]
    /\ UNCHANGED <<nodeCounter, entityCounter, idKind, idLocal, idTmp, idReturned, idCalls>>

\* session.py:65 / 72  "node_id = self._node_counter"
Id_Read(t) ==
    /\ idPc[t] = "read"
    /\ idLocal' = [idLocal EXCEPT ![t] = Counter(idKind[t])]
    /\ idPc' = [idPc EXCEPT ![t] = "load"]
    /\ UNCHANGED <<nodeCounter, entityCounter, sessLock, idKind, idTmp, idReturned, idCalls>>

\* session.py:66 / 73  "self._node_counter += 1", the load half
Id_IncLoad(t) ==
    /\ idPc[t] = "load"
    /\ idTmp' = [idTmp EXCEPT ![t] = Counter(idKind[t])]
    /\ idPc' = [idPc EXCEPT ![t] = "store"]
    /\ UNCHANGED <<nodeCounter, entityCounter, sessLock, idKind, idLocal, idReturned, idCalls>>

\* session.py:66 / 73  "self._node_counter += 1", the store half
Id_IncStore(t) ==
    /\ idPc[t] = "store"
    /\ IF idKind[t] = "node"
          THEN nodeCounter' = idTmp[t] + 1 /\ UNCHANGED entityCounter
          ELSE entityCounter' = idTmp[t] + 1 /\ UNCHANGED nodeCounter
    /\ idPc' = [idPc EXCEPT ![t] = "release"]
    /\ UNCHANGED <<sessLock, idKind, idLocal, idTmp, idReturned, idCalls>>

\* session.py:67 / 74  "return node_id" leaves the with block: the lock is
\* released and the caller gets the local value.
Id_Return(t) ==
    /\ idPc[t] = "release"
    /\ sessLock' = 0
    /\ idReturned' = [idReturned EXCEPT ![idKind[t]] = Append(@, idLocal[t])]
    /\ idPc' = [idPc EXCEPT ![t] = "idle"]
    /\ UNCHANGED <<nodeCounter, entityCounter, idKind, idLocal, idTmp, idCalls>>

NextIds ==
    \E t \in Threads :
        \/ \E k \in {"node", "entity"} : Id_Call(t, k) /\ UNCHANGED <<instVars, closeVars, pubVars, srvVars, subVars, sessVars, regVars, fnVars, dlvVars, ctorVars>>
        \/ Id_Acquire(t) /\ UNCHANGED <<instVars, closeVars, pubVars, srvVars, subVars, sessVars, regVars, fnVars, dlvVars, ctorVars>>
        \/ Id_Read(t) /\ UNCHANGED <<instVars, closeVars, pubVars, srvVars, subVars, sessVars, regVars, fnVars, dlvVars, ctorVars>>
        \/ Id_IncLoad(t) /\ UNCHANGED <<instVars, closeVars, pubVars, srvVars, subVars, sessVars, regVars, fnVars, dlvVars, ctorVars>>
        \/ Id_IncStore(t) /\ UNCHANGED <<instVars, closeVars, pubVars, srvVars, subVars, sessVars, regVars, fnVars, dlvVars, ctorVars>>
        \/ Id_Return(t) /\ UNCHANGED <<instVars, closeVars, pubVars, srvVars, subVars, sessVars, regVars, fnVars, dlvVars, ctorVars>>

\* ------------------------------------------------- endpoint close()
\* ROS2Publisher.close (publisher.py:175-204), ROS2Subscriber.close
\* (subscriber.py:280-317), ROS2ServiceServer.close (service_server.py:378-402).
Closers == 1..NClosers
Kinds == {"pub", "sub", "srv"}
\* "node": the node liveliness token; "ep": the MP / MS / SS liveliness token;
\* "data": the data publisher, the data subscriber or the queryable.
Entities == {"node", "ep", "data"}

\* The order in which close() goes through the attributes: the subscriber
\* starts with its own token (subscriber.py:292-305), the publisher and the
\* server with the node token (publisher.py:186-194, service_server.py:388-395).
CloseOrder(k) == IF k = "sub" THEN <<"ep", "node", "data">> ELSE <<"node", "ep", "data">>

\* Whether close() assigns None to the attribute after undeclaring it: the
\* subscriber does so for all three (subscriber.py:294, 297, 305), the
\* publisher and the server only for pub / queryable (publisher.py:194,
\* service_server.py:395).
ClearsHandle(k, x) == k = "sub" \/ x = "data"

Idle == [phase |-> "idle", idx |-> 0]
NoResult == [ended |-> "none", closedSeen |-> FALSE, failed |-> FALSE]

\* The state after a constructor has returned: both tokens and the data
\* entity declared (publisher.py:111-119, subscriber.py:121-127,
\* service_server.py:180-195), _closed False.
InitClose ==
    /\ epKind \in Kinds
    /\ closed = FALSE
    /\ handle = [x \in Entities |-> TRUE]
    /\ declared = [x \in Entities |-> TRUE]
    /\ undCalls = [x \in Entities |-> 0]
    /\ cPc = [t \in Closers |-> Idle]
    /\ cFailed = [t \in Closers |-> FALSE]
    /\ cLate = [t \in Closers |-> FALSE]
    /\ cResult = [t \in Closers |-> NoResult]
    /\ cReturned = FALSE
    /\ cOverlap = FALSE
    /\ cCalls = 0

At(t, ph, i) == cPc[t] = [phase |-> ph, idx |-> i]
Goto(t, ph, i) == cPc' = [cPc EXCEPT ![t] = [phase |-> ph, idx |-> i]]
\* After attribute i is dealt with: the next attribute, or "self._closed = True".
GotoNext(t, i) == IF i < 3 THEN Goto(t, "chk", i + 1) ELSE Goto(t, "setclosed", 0)
Cur(i) == CloseOrder(epKind)[i]

\* A thread calls close().
Close_Call(t) ==
    /\ cPc[t] = Idle
    /\ cCalls < MaxCloseCalls
    /\ cCalls' = cCalls + 1
    /\ Goto(t, "entry", 0)
    /\ cLate' = [cLate EXCEPT ![t] = cReturned]
    /\ cFailed' = [cFailed EXCEPT ![t] = FALSE]
    /\ cOverlap' = (cOverlap \/ \E u \in Closers \ {t} : cPc[u] # Idle)
    /\ UNCHANGED <<epKind, closed, handle, declared, undCalls, cResult, cReturned>>

\* The _closed check dropped: every call goes on to the cleanup.
Close_Entry_NoFlag(t) ==
    /\ At(t, "entry", 0)
    /\ Goto(t, "chk", 1)
    /\ UNCHANGED <<epKind, closed, handle, declared, undCalls, cFailed, cLate,
                   cResult, cReturned, cOverlap, cCalls>>

\* publisher.py:182-183, subscriber.py:287-288, service_server.py:384-385
\* "if hasattr(self, '_closed') and self._closed: return"
Close_Entry(t) ==
    /\ At(t, "entry", 0)
    /\ IF closed THEN Goto(t, "ret", 0) ELSE Goto(t, "chk", 1)
    /\ UNCHANGED <<epKind, closed, handle, declared, undCalls, cFailed, cLate,
                   cResult, cReturned, cOverlap, cCalls>>

\* publisher.py:186, 188, 191; subscriber.py:292, 295, 299;
\* service_server.py:388, 390, 392  "if hasattr(self, X) and self.X is not None:"
Close_CheckHandle(t, i) ==
    /\ At(t, "chk", i)
    /\ IF handle[Cur(i)]
          THEN IF Cur(i) = "data" THEN Goto(t, "has", i) ELSE Goto(t, "und", i)
          ELSE GotoNext(t, i)
    /\ UNCHANGED <<epKind, closed, handle, declared, undCalls, cFailed, cLate,
                   cResult, cReturned, cOverlap, cCalls>>

\* publisher.py:192, subscriber.py:302, service_server.py:393
\* "if hasattr(self.pub, 'undeclare'):" reads the attribute again; None has no
\* undeclare, a Zenoh entity has.
Close_HasUndeclare(t, i) ==
    /\ At(t, "has", i)
    /\ IF handle[Cur(i)] THEN Goto(t, "und", i) ELSE Goto(t, "clr", i)
    /\ UNCHANGED <<epKind, closed, handle, declared, undCalls, cFailed, cLate,
                   cResult, cReturned, cOverlap, cCalls>>

\* publisher.py:187, 189, 193; subscriber.py:293, 296, 303;
\* service_server.py:389, 391, 394  "self.X.undeclare()" returns normally.
Close_Undeclare(t, i) ==
    /\ At(t, "und", i)
    /\ handle[Cur(i)]
    /\ undCalls' = [undCalls EXCEPT ![Cur(i)] = @ + 1]
    /\ declared' = [declared EXCEPT ![Cur(i)] = FALSE]
    /\ IF ClearsHandle(epKind, Cur(i)) THEN Goto(t, "clr", i) ELSE GotoNext(t, i)
    /\ UNCHANGED <<epKind, closed, handle, cFailed, cLate, cResult, cReturned,
                   cOverlap, cCalls>>

\* The same statements when the call raises: Zenoh's undeclare fails (the
\* entity may or may not be gone by then), or the attribute has meanwhile been
\* set to None by another thread (AttributeError). Control passes to the
\* except clauses, skipping the rest of the try block.
Close_UndeclareRaises(t, i) ==
    /\ At(t, "und", i)
    /\ IF handle[Cur(i)]
          THEN /\ undCalls' = [undCalls EXCEPT ![Cur(i)] = @ + 1]
               /\ \E gone \in BOOLEAN :
                     declared' = [declared EXCEPT ![Cur(i)] = @ /\ ~gone]
          ELSE UNCHANGED <<undCalls, declared>>
    /\ cFailed' = [cFailed EXCEPT ![t] = TRUE]
    /\ Goto(t, "except", 0)
    /\ UNCHANGED <<epKind, closed, handle, cLate, cResult, cReturned, cOverlap, cCalls>>

\* subscriber.py:294, 297, 305; publisher.py:194; service_server.py:395
\* "self.X = None"
Close_ClearHandle(t, i) ==
    /\ At(t, "clr", i)
    /\ handle' = [handle EXCEPT ![Cur(i)] = FALSE]
    /\ GotoNext(t, i)
    /\ UNCHANGED <<epKind, closed, declared, undCalls, cFailed, cLate, cResult,
                   cReturned, cOverlap, cCalls>>

\* publisher.py:195, subscriber.py:306, service_server.py:396
\* "self._closed = True" at the end of the try block
Close_SetClosed(t) ==
    /\ At(t, "setclosed", 0)
    /\ closed' = TRUE
    /\ Goto(t, "ret", 0)
    /\ UNCHANGED <<epKind, handle, declared, undCalls, cFailed, cLate, cResult,
                   cReturned, cOverlap, cCalls>>

\* The except clauses let the exception through: close() raises, _closed stays.
Close_Except_Reraise(t) ==
    /\ At(t, "except", 0)
    /\ cResult' = [cResult EXCEPT ![t] =
                      [ended |-> "raised", closedSeen |-> closed, failed |-> cFailed[t]]]
    /\ cPc' = [cPc EXCEPT ![t] = Idle]
    /\ cReturned' = TRUE
    /\ UNCHANGED <<epKind, closed, handle, declared, undCalls, cFailed, cLate,
                   cOverlap, cCalls>>

\* publisher.py:196-204, subscriber.py:307-317, service_server.py:397-402
\* "except (AttributeError, RuntimeError)" and "except Exception": log, then
\* "self._closed = True"
Close_Except(t) ==
    /\ At(t, "except", 0)
    /\ closed' = TRUE
    /\ Goto(t, "ret", 0)
    /\ UNCHANGED <<epKind, handle, declared, undCalls, cFailed, cLate, cResult,
                   cReturned, cOverlap, cCalls>>

\* close() returns to its caller.
Close_Return(t) ==
    /\ At(t, "ret", 0)
    /\ cResult' = [cResult EXCEPT ![t] =
                      [ended |-> "returned", closedSeen |-> closed, failed |-> cFailed[t]]]
    /\ cPc' = [cPc EXCEPT ![t] = Idle]
    /\ cReturned' = TRUE
    /\ UNCHANGED <<epKind, closed, handle, declared, undCalls, cFailed, cLate,
                   cOverlap, cCalls>>

NextClose ==
    \E t \in Closers :
        \/ Close_Call(t) /\ UNCHANGED <<instVars, idVars, pubVars, srvVars, subVars, sessVars, regVars, fnVars, dlvVars, ctorVars>>
        \/ Close_Entry(t) /\ UNCHANGED <<instVars, idVars, pubVars, srvVars, subVars, sessVars, regVars, fnVars, dlvVars, ctorVars>>
        \/ \E i \in 1..3 : Close_CheckHandle(t, i) /\ UNCHANGED <<instVars, idVars, pubVars, srvVars, subVars, sessVars, regVars, fnVars, dlvVars, ctorVars>>
        \/ \E i \in 1..3 : Close_HasUndeclare(t, i) /\ UNCHANGED <<instVars, idVars, pubVars, srvVars, subVars, sessVars, regVars, fnVars, dlvVars, ctorVars>>
        \/ \E i \in 1..3 : Close_Undeclare(t, i) /\ UNCHANGED <<instVars, idVars, pubVars, srvVars, subVars, sessVars, regVars, fnVars, dlvVars, ctorVars>>
        \/ \E i \in 1..3 : Close_UndeclareRaises(t, i) /\ UNCHANGED <<instVars, idVars, pubVars, srvVars, subVars, sessVars, regVars, fnVars, dlvVars, ctorVars>>
        \/ \E i \in 1..3 : Close_ClearHandle(t, i) /\ UNCHANGED <<instVars, idVars, pubVars, srvVars, subVars, sessVars, regVars, fnVars, dlvVars, ctorVars>>
        \/ Close_SetClosed(t) /\ UNCHANGED <<instVars, idVars, pubVars, srvVars, subVars, sessVars, regVars, fnVars, dlvVars, ctorVars>>
        \/ Close_Except(t) /\ UNCHANGED <<instVars, idVars, pubVars, srvVars, subVars, sessVars, regVars, fnVars, dlvVars, ctorVars>>
        \/ Close_Return(t) /\ UNCHANGED <<instVars, idVars, pubVars, srvVars, subVars, sessVars, regVars, fnVars, dlvVars, ctorVars>>

\* ------------------------------------------------- rmw_zenoh attachment
\* struct.pack('<Q', n) for w = 8, struct.pack('B', n) for w = 1: the w
\* little-endian bytes of n.
RECURSIVE PackLE(_, _)
PackLE(n, w) == IF w = 0 THEN <<>> ELSE <<n % 256>> \o PackLE(n \div 256, w - 1)

\* struct.unpack('<Q', b)[0]: the number whose little-endian bytes are b.
RECURSIVE UnpackLE(_)
UnpackLE(b) == IF b = <<>> THEN 0 ELSE b[1] + 256 * UnpackLE(Tail(b))

\* The length of a GID: uuid.uuid4().bytes (session.py:79).
GidLen == 16
\* Values time.time() * 1e9 can take when an attachment is built.
Clock == {9, 300}
\* The GID the publisher drew at construction (publisher.py:101).
publisher_gid == [i \in 1..GidLen |-> 16 + i]

\* The length byte is left out.
CreateAttachment_NoLength(seq_num, timestamp_ns, gid) ==
    PackLE(seq_num, 8) \o PackLE(timestamp_ns, 8) \o gid

\* publisher.py:146-152  ROS2Publisher._create_attachment
CreateAttachment(seq_num, timestamp_ns, gid) ==
    PackLE(seq_num, 8) \o PackLE(timestamp_ns, 8) \o PackLE(Len(gid), 1) \o gid

NoAttachment == [valid |-> FALSE, sequence_id |-> 0, timestamp_ns |-> 0, gid |-> <<>>]

\* The second length check dropped: a GID shorter than its length byte passes.
ParseAttachment_NoGidCheck(attachment) ==
    IF Len(attachment) < 17
       THEN NoAttachment
       ELSE LET gid_len == UnpackLE(SubSeq(attachment, 17, 17)) IN
            [valid |-> TRUE,
             sequence_id |-> UnpackLE(SubSeq(attachment, 1, 8)),
             timestamp_ns |-> UnpackLE(SubSeq(attachment, 9, 16)),
             gid |-> SubSeq(attachment, 18, IF 17 + gid_len < Len(attachment)
                                               THEN 17 + gid_len ELSE Len(attachment))]

\* service_server.py:222-244  ROS2ServiceServer._parse_attachment; None is
\* the record with valid = FALSE.
ParseAttachment(attachment) ==
    IF Len(attachment) < 17
       THEN NoAttachment
       ELSE LET gid_len == UnpackLE(SubSeq(attachment, 17, 17)) IN
            IF Len(attachment) < 17 + gid_len
               THEN NoAttachment
               ELSE [valid |-> TRUE,
                     sequence_id |-> UnpackLE(SubSeq(attachment, 1, 8)),
                     timestamp_ns |-> UnpackLE(SubSeq(attachment, 9, 16)),
                     gid |-> SubSeq(attachment, 18, 17 + gid_len)]

\* ------------------------------------------------- ROS2Publisher.publish
PubThreads == 1..NPublishers
NoPublish == [ended |-> "none", seqBefore |-> 0, seqAfter |-> 0]

\* publisher.py:117-119: the constructor leaves sequence_number = 0.
InitPublish ==
    /\ sequence_number = 0
    /\ wire = <<>>
    /\ pPc = [t \in PubThreads |-> "idle"]
    /\ pAtt = [t \in PubThreads |-> <<>>]
    /\ pTmp = [t \in PubThreads |-> 0]
    /\ pSeqAtCall = [t \in PubThreads |-> 0]
    /\ pResult = [t \in PubThreads |-> NoPublish]
    /\ pOverlap = FALSE
    /\ pCalls = 0

\* publish() ends by raising: the exception leaves through the caller.
PubRaise(t) ==
    /\ pPc' = [pPc EXCEPT ![t] = "idle"]
    /\ pResult' = [pResult EXCEPT ![t] =
                      [ended |-> "raised", seqBefore |-> pSeqAtCall[t],
                       seqAfter |-> sequence_number']]

\* A thread calls publish(**kwargs).
P_Call(t) ==
    /\ pPc[t] = "idle"
    /\ pCalls < MaxPublish
    /\ pCalls' = pCalls + 1
    /\ pPc' = [pPc EXCEPT ![t] = "encode"]
    /\ pSeqAtCall' = [pSeqAtCall EXCEPT ![t] = sequence_number]
    /\ pResult' = [pResult EXCEPT ![t] = NoPublish]
    /\ pOverlap' = (pOverlap \/ \E u \in PubThreads \ {t} : pPc[u] # "idle")
    /\ UNCHANGED <<sequence_number, wire, pAtt, pTmp>>

\* publisher.py:162-165  "msg = self.msg_class(**kwargs)" raises on a missing
\* or unknown field, "serialize_cdr(msg, self.msg_type)" on a value of the
\* wrong type; neither touches the publisher's state.
P_Encode(t) ==
    /\ pPc[t] = "encode"
    /\ UNCHANGED <<sequence_number, wire, pAtt, pTmp, pSeqAtCall, pOverlap, pCalls>>
    /\ \E ok \in BOOLEAN :
          IF ok THEN pPc' = [pPc EXCEPT ![t] = "attach"] /\ UNCHANGED pResult
                ELSE PubRaise(t)

\* publisher.py:168-169  the timestamp is taken and the attachment built from
\* the sequence_number read here.
P_Attach(t) ==
    /\ pPc[t] = "attach"
    /\ \E now \in Clock :
          pAtt' = [pAtt EXCEPT ![t] = CreateAttachment(sequence_number, now, publisher_gid)]
    /\ pPc' = [pPc EXCEPT ![t] = "put"]
    /\ UNCHANGED <<sequence_number, wire, pTmp, pSeqAtCall, pResult, pOverlap, pCalls>>

\* publisher.py:172  how "self.pub.put(...)" can end: on a declared
\* publisher the put succeeds or Zenoh raises; self.pub set to None by
\* close() (publisher.py:194) gives AttributeError, and an undeclared
\* publisher refuses the put.
PutOutcomes == IF handle["data"] /\ declared["data"] THEN BOOLEAN ELSE {FALSE}

\* A put that fails is counted all the same.
P_Put_CountsFailures(t) ==
    /\ pPc[t] = "put"
    /\ UNCHANGED <<pAtt, pTmp, pSeqAtCall, pOverlap, pCalls>>
    /\ \E ok \in PutOutcomes :
          IF ok THEN /\ wire' = Append(wire, pAtt[t])
                     /\ pPc' = [pPc EXCEPT ![t] = "load"]
                     /\ UNCHANGED <<pResult, sequence_number>>
                ELSE /\ sequence_number' = sequence_number + 1
                     /\ UNCHANGED wire
                     /\ PubRaise(t)

\* publisher.py:172  "self.pub.put(cdr_bytes, encoding=..., attachment=attachment)":
\* the sample goes on the wire, or put raises.
P_Put(t) ==
    /\ pPc[t] = "put"
    /\ UNCHANGED <<sequence_number, pAtt, pTmp, pSeqAtCall, pOverlap, pCalls>>
    /\ \E ok \in PutOutcomes :
          IF ok THEN /\ wire' = Append(wire, pAtt[t])
                     /\ pPc' = [pPc EXCEPT ![t] = "load"]
                     /\ UNCHANGED pResult
                ELSE /\ UNCHANGED wire
                     /\ PubRaise(t)

\* publisher.py:173  "self.sequence_number += 1", the load half
P_IncLoad(t) ==
    /\ pPc[t] = "load"
    /\ pTmp' = [pTmp EXCEPT ![t] = sequence_number]
    /\ pPc' = [pPc EXCEPT ![t] = "store"]
    /\ UNCHANGED <<sequence_number, wire, pAtt, pSeqAtCall, pResult, pOverlap, pCalls>>

\* publisher.py:173  "self.sequence_number += 1", the store half; publish()
\* then returns.
P_IncStore(t) ==
    /\ pPc[t] = "store"
    /\ sequence_number' = pTmp[t] + 1
    /\ pPc' = [pPc EXCEPT ![t] = "idle"]
    /\ pResult' = [pResult EXCEPT ![t] =
                      [ended |-> "returned", seqBefore |-> pSeqAtCall[t],
                       seqAfter |-> pTmp[t] + 1]]
    /\ UNCHANGED <<wire, pAtt, pTmp, pSeqAtCall, pOverlap, pCalls>>

NextPublish ==
    \E t \in PubThreads :
        \/ P_Call(t) /\ UNCHANGED <<instVars, idVars, closeVars, srvVars, subVars, sessVars, regVars, fnVars, dlvVars, ctorVars>>
        \/ P_Encode(t) /\ UNCHANGED <<instVars, idVars, closeVars, srvVars, subVars, sessVars, regVars, fnVars, dlvVars, ctorVars>>
        \/ P_Attach(t) /\ UNCHANGED <<instVars, idVars, closeVars, srvVars, subVars, sessVars, regVars, fnVars, dlvVars, ctorVars>>
        \/ P_Put(t) /\ UNCHANGED <<instVars, idVars, closeVars, srvVars, subVars, sessVars, regVars, fnVars, dlvVars, ctorVars>>
        \/ P_IncLoad(t) /\ UNCHANGED <<instVars, idVars, closeVars, srvVars, subVars, sessVars, regVars, fnVars, dlvVars, ctorVars>>
        \/ P_IncStore(t) /\ UNCHANGED <<instVars, idVars, closeVars, srvVars, subVars, sessVars, regVars, fnVars, dlvVars, ctorVars>>

\* ------------------------------------- ROS2ServiceServer._query_handler
Queries == 1..MaxQueries

\* The GID the server drew at construction (service_server.py:168).
server_gid == [i \in 1..GidLen |-> 200 + i]
\* GIDs of two clients.
ClientGidA == [i \in 1..GidLen |-> i]
ClientGidB == [i \in 1..GidLen |-> 100 + i]

\* What query.payload can be: None ("absent"), an object that is neither
\* ZBytes nor bytes and has no to_bytes ("unsupported"), zero bytes ("empty"),
\* the CDR encoding of a request ("cdr"), bytes deserialize_cdr rejects ("badcdr").
PayloadKinds == {"absent", "unsupported", "empty", "cdr", "badcdr"}

\* What query.attachment can be: None, or bytes. The bytes are attachments as
\* a client builds them (timestamp 7), one with a one-byte GID followed by a
\* stray byte, and two damaged ones: cut before the length byte (16 bytes),
\* and cut inside the GID (32 of 33 bytes).
AttachmentBytes ==
    { CreateAttachment(0, 7, ClientGidA),
      CreateAttachment(300, 7, ClientGidB),
      CreateAttachment(1, 7, <<9>>) \o <<0>>,
      SubSeq(CreateAttachment(3, 7, ClientGidA), 1, 16),
      SubSeq(CreateAttachment(3, 7, ClientGidA), 1, 32) }
AttachmentInputs ==
    {[present |-> FALSE, bytes |-> <<>>]} \cup {[present |-> TRUE, bytes |-> b] : b \in AttachmentBytes}

\* The attachment uses the server's own GID instead of the request's.
CreateResponseAttachment_ServerGid(request_seq_num, request_gid, timestamp_ns) ==
    PackLE(request_seq_num, 8) \o PackLE(timestamp_ns, 8) \o PackLE(Len(server_gid), 1)
        \o server_gid

\* service_server.py:246-257  ROS2ServiceServer._create_response_attachment;
\* timestamp_ns is the value time.time() gives at line 252.
CreateResponseAttachment(request_seq_num, request_gid, timestamp_ns) ==
    PackLE(request_seq_num, 8) \o PackLE(timestamp_ns, 8) \o PackLE(Len(request_gid), 1)
        \o request_gid

\* attRead: the handler has read query.attachment (service_server.py:311);
\* the attachment of a query is drawn when it is read. cbResult: how the user
\* callback ended for this query. afterFail: the query was delivered after the
\* handler had ended another query on a failed callback.
NewQuery ==
    [pc |-> "new", payload |-> "", attRead |-> FALSE,
     attachment |-> [present |-> FALSE, bytes |-> <<>>],
     attachment_data |-> NoAttachment, cbCalls |-> 0, cbResult |-> "",
     afterFail |-> FALSE,
     errCalled |-> FALSE, errSent |-> FALSE,
     dataCalls |-> 0, dataAtt |-> <<>>, dataSent |-> FALSE]

\* service_server.py:188-195: the queryable is declared, no query delivered yet.
InitServer ==
    qry = [q \in Queries |-> NewQuery]

\* The handler ends on an error reply: query.reply_err is called
\* (service_server.py:272, 279, 292, 298, 308, 315, 324, 330, 343, 369, 374).
\* A reply_err that raises is caught by the enclosing except clause, which
\* calls reply_err again (369, 374); the last one is guarded (373-376). The
\* error reply is sent unless every call in the chain raised.
EndWithError(q, query) ==
    \E sent \in BOOLEAN :
        qry' = [qry EXCEPT ![q] =
                   [query EXCEPT !.pc = "done", !.errCalled = TRUE, !.errSent = sent]]

\* The queries the handler has ended after the user callback raised or
\* returned None.
CallbackFailed ==
    {r \in Queries : qry[r].pc \in {"done", "raised"} /\ qry[r].cbResult \in {"none", "raises"}}

\* service_server.py:264-299  the checks on the payload of the delivered
\* query: None (276), of an unsupported type (289), empty (295). Each ends
\* with reply_err and return.
QH_CheckPayload(q) ==
    /\ qry[q].pc = "new"
    /\ \E payload \in PayloadKinds :
          LET query == [qry[q] EXCEPT !.payload = payload,
                                      !.afterFail = CallbackFailed # {}] IN
          IF payload \in {"absent", "unsupported", "empty"}
             THEN EndWithError(q, query)
             ELSE qry' = [qry EXCEPT ![q] = [query EXCEPT !.pc = "attachment"]]

\* service_server.py:305-331  the checks on the attachment: None (312),
\* _parse_attachment returning None (327). Each ends with reply_err and return.
QH_CheckAttachment(q) ==
    /\ qry[q].pc = "attachment"
    /\ \E attachment \in AttachmentInputs :
          LET attachment_data == IF attachment.present
                                    THEN ParseAttachment(attachment.bytes)
                                    ELSE NoAttachment
              query == [qry[q] EXCEPT !.attachment = attachment, !.attRead = TRUE]
          IN  IF ~attachment_data.valid
                 THEN EndWithError(q, query)
                 ELSE qry' = [qry EXCEPT ![q] =
                                 [query EXCEPT !.pc = "deserialize",
                                               !.attachment_data = attachment_data]]

\* A request that cannot be deserialized is dropped without a reply.
QH_Deserialize_Silent(q) ==
    /\ qry[q].pc = "deserialize"
    /\ IF qry[q].payload = "cdr"
          THEN qry' = [qry EXCEPT ![q].pc = "callback"]
          ELSE qry' = [qry EXCEPT ![q].pc = "done"]

\* service_server.py:334  deserialize_cdr; when it raises the outer except
\* (371-376) sends the error reply.
QH_Deserialize(q) ==
    /\ qry[q].pc = "deserialize"
    /\ IF qry[q].payload = "cdr"
          THEN qry' = [qry EXCEPT ![q].pc = "callback"]
          ELSE EndWithError(q, qry[q])

\* The callback called outside any try: its exception leaves the handler.
QH_Callback_Propagates(q) ==
    /\ qry[q].pc = "callback"
    /\ \E result \in {"response", "none", "raises"} :
          LET called == [qry[q] EXCEPT !.cbCalls = @ + 1, !.cbResult = result] IN
          CASE result = "response" -> qry' = [qry EXCEPT ![q] = [called EXCEPT !.pc = "reply"]]
            [] result = "none" -> EndWithError(q, called)
            [] result = "raises" -> qry' = [qry EXCEPT ![q] = [called EXCEPT !.pc = "raised"]]

\* service_server.py:338-344, 367-369  the user callback is called: it
\* returns a response, returns None (reply_err at 343, then the except
\* clauses at 369 and 374 if that raises), or raises (reply_err at 369, then 374).
QH_Callback(q) ==
    /\ qry[q].pc = "callback"
    /\ \E result \in {"response", "none", "raises"} :
          LET called == [qry[q] EXCEPT !.cbCalls = @ + 1, !.cbResult = result] IN
          CASE result = "response" -> qry' = [qry EXCEPT ![q] = [called EXCEPT !.pc = "reply"]]
            [] result = "none" -> EndWithError(q, called)
            [] result = "raises" -> EndWithError(q, called)

\* service_server.py:347-365  the response is serialized, the attachment built
\* from the request's sequence number and GID, and query.reply called; when
\* serialize_cdr or reply raises, the except clauses (369, 374) reply_err.
QH_Reply(q) ==
    /\ qry[q].pc = "reply"
    /\ \E serialized \in BOOLEAN :
          IF ~serialized
             THEN EndWithError(q, qry[q])
             ELSE \E now \in Clock, ok \in BOOLEAN :
                     LET replied == [qry[q] EXCEPT
                                        !.dataCalls = @ + 1,
                                        !.dataAtt = CreateResponseAttachment(
                                                        qry[q].attachment_data.sequence_id,
                                                        qry[q].attachment_data.gid, now),
                                        !.dataSent = ok]
                     IN  IF ok THEN qry' = [qry EXCEPT ![q] = [replied EXCEPT !.pc = "done"]]
                               ELSE EndWithError(q, replied)

NextServer ==
    \E q \in Queries :
        \/ QH_CheckPayload(q) /\ UNCHANGED <<instVars, idVars, closeVars, pubVars, subVars, sessVars, regVars, fnVars, dlvVars, ctorVars>>
        \/ QH_CheckAttachment(q) /\ UNCHANGED <<instVars, idVars, closeVars, pubVars, subVars, sessVars, regVars, fnVars, dlvVars, ctorVars>>
        \/ QH_Deserialize(q) /\ UNCHANGED <<instVars, idVars, closeVars, pubVars, subVars, sessVars, regVars, fnVars, dlvVars, ctorVars>>
        \/ QH_Callback(q) /\ UNCHANGED <<instVars, idVars, closeVars, pubVars, subVars, sessVars, regVars, fnVars, dlvVars, ctorVars>>
        \/ QH_Reply(q) /\ UNCHANGED <<instVars, idVars, closeVars, pubVars, subVars, sessVars, regVars, fnVars, dlvVars, ctorVars>>

\* --------------------------------------------------------- ROS2Subscriber
Samples == 1..MaxSamples

\* A QosProfile, as far as the subscriber reads it: durability and
\* history_depth. DEFAULT_QOS_PROFILE is the profile whose encoding is the
\* default string "::,7:,:,:,,": volatile, depth 7.
DEFAULT_QOS_PROFILE == [durability |-> "volatile", history_depth |-> 7]

\* The qos argument: None, a QosProfile, an encoded QoS string (a durability
\* field that is empty, a durability, or "?" for text that does not parse;
\* a depth field, 0 when empty), or an object of any other type.
QosInputs ==
    {[type |-> "none", durability |-> "", depth |-> 0],
     [type |-> "other", durability |-> "", depth |-> 0],
     [type |-> "profile", durability |-> "volatile", depth |-> 7],
     [type |-> "profile", durability |-> "transient_local", depth |-> 1],
     [type |-> "profile", durability |-> "transient_local", depth |-> 7],
     [type |-> "str", durability |-> "", depth |-> 7],
     [type |-> "str", durability |-> "volatile", depth |-> 0],
     [type |-> "str", durability |-> "transient_local", depth |-> 3],
     [type |-> "str", durability |-> "?", depth |-> 7]}

\* QosProfile.decode: an empty field takes the default's value; text that
\* does not parse raises.
QosDecodeRaises(qos) == qos.durability = "?"
QosDecode(qos) ==
    [durability |-> IF qos.durability = "" THEN DEFAULT_QOS_PROFILE.durability
                                           ELSE qos.durability,
     history_depth |-> IF qos.depth = 0 THEN DEFAULT_QOS_PROFILE.history_depth
                                        ELSE qos.depth]

\* Strings are not decoded: they get the default profile like any other object.
NormalizeQos_IgnoresStrings(qos) ==
    IF qos.type = "profile"
       THEN [durability |-> qos.durability, history_depth |-> qos.depth]
       ELSE DEFAULT_QOS_PROFILE

\* subscriber.py:135-153  ROS2Subscriber._normalize_qos, the profile it returns
\* (called with default=DEFAULT_QOS_PROFILE at lines 64 and 131).
NormalizeQos(qos) ==
    CASE qos.type = "none" -> DEFAULT_QOS_PROFILE
      [] qos.type = "profile" -> [durability |-> qos.durability, history_depth |-> qos.depth]
      [] qos.type = "str" -> QosDecode(qos)
      [] OTHER -> DEFAULT_QOS_PROFILE

\* Zenoh ids of the sessions that hold publishers of the topic.
ZenohIds == {"za", "zb"}
\* Key expression of a publisher's liveliness token, split at '/':
\* @ros2_lv/<domain>/<zenoh_id>/<node_id>/<entity_id>/MP/...
LvKey(zenoh_id, entity_id) == <<"@ros2_lv", "0", zenoh_id, "0", entity_id, "MP">>
\* The tokens a liveliness get can be answered with: two publishers in
\* session za, one in session zb.
Tokens == {LvKey("za", "1"), LvKey("za", "2"), LvKey("zb", "1")}

\* The orders list(publishers) can give a set of ids.
RECURSIVE ListsOf(_)
ListsOf(S) ==
    IF S = {} THEN {<<>>}
    ELSE UNION {{<<x>> \o l : l \in ListsOf(S \ {x})} : x \in S}

\* What sample.payload can be: None ("absent"), an object of an unsupported
\* type ("unsupported"), zero bytes ("empty"), the CDR encoding of a message
\* ("cdr"), bytes deserialize_cdr rejects ("badcdr").
\* get: 0 for a live sample, else the number of the history get it answers.
NoSample == [pc |-> "none", get |-> 0, payload |-> "", cbCalls |-> 0, logged |-> FALSE]
Delivered == {s \in Samples : smp[s].pc # "none"}
\* A history reply is inside _process_sample (the constructor's loop waits).
ReplyInProgress == \E s \in Samples : smp[s].get > 0 /\ smp[s].pc \in {"decode", "callback"}

InitSubscriber ==
    /\ subPc = "new"
    /\ subQos = [type |-> "none", durability |-> "", depth |-> 0]
    /\ qos_profile = DEFAULT_QOS_PROFILE
    /\ gets = <<>>
    /\ publishers = <<>>
    /\ hIdx = 0
    /\ smp = [s \in Samples |-> NoSample]

\* subscriber.py:56-127  the constructor up to "self._closed = False": the
\* qos is normalized for the tokens (64; an unparseable string raises), the
\* tokens are declared (123) and the data subscriber is declared (126).
Sub_Construct ==
    /\ subPc = "new"
    /\ \E qos \in QosInputs :
          /\ subQos' = qos
          /\ subPc' = IF qos.type = "str" /\ QosDecodeRaises(qos) THEN "raised" ELSE "declared"
    /\ UNCHANGED <<qos_profile, gets, publishers, hIdx, smp>>

\* subscriber.py:131-133  "if self.qos_profile.durability == TRANSIENT_LOCAL"
Sub_CheckDurability ==
    /\ subPc = "declared"
    /\ qos_profile' = NormalizeQos(subQos)
    /\ subPc' = IF NormalizeQos(subQos).durability = "transient_local" THEN "discover" ELSE "ready"
    /\ UNCHANGED <<subQos, gets, publishers, hIdx, smp>>

\* subscriber.py:228-231, 253-278  _discover_publishers: one liveliness get;
\* of each ok reply received (until the replies end or an exception ends the
\* loop, 275) the component at index 2 goes into a set; list(set) is returned.
\* With no publisher _query_historical_data returns (229-231).
Sub_Discover ==
    /\ subPc = "discover"
    /\ gets' = Append(gets, [kind |-> "liveliness", zenoh_id |-> "", max |-> 0, ok |-> 0,
                             failed |-> FALSE])
    /\ \E replies \in SUBSET Tokens :
          \E l \in ListsOf({key_expr[3] : key_expr \in replies}) :
              /\ publishers' = l
              /\ subPc' = IF l = <<>> THEN "ready" ELSE "get"
    /\ UNCHANGED <<subQos, qos_profile, hIdx, smp>>

\* subscriber.py:233-241  the loop takes the next publisher and issues
\* session.get on <keyexpr>/@adv/pub/<zenoh_id>/**?_anyke;_max=<history_depth>.
Sub_HistoryGet ==
    /\ subPc = "get"
    /\ gets' = Append(gets, [kind |-> "history", zenoh_id |-> publishers[hIdx + 1],
                             max |-> qos_profile.history_depth, ok |-> 0,
                             failed |-> FALSE])
    /\ subPc' = "iter"
    /\ UNCHANGED <<subQos, qos_profile, publishers, hIdx, smp>>

\* The ok reply is counted but not processed.
Sub_ReplyOk_Dropped ==
    /\ subPc = "iter"
    /\ ~ReplyInProgress
    /\ Cardinality(Delivered) < MaxSamples
    /\ gets' = [gets EXCEPT ![Len(gets)].ok = @ + 1]
    /\ UNCHANGED <<subPc, subQos, qos_profile, publishers, hIdx, smp>>

\* subscriber.py:241-244  a reply with reply.ok arrives: it is counted and
\* handed to _process_sample, which runs inside the loop.
Sub_ReplyOk ==
    /\ subPc = "iter"
    /\ ~ReplyInProgress
    /\ Cardinality(Delivered) < MaxSamples
    /\ gets' = [gets EXCEPT ![Len(gets)].ok = @ + 1]
    /\ \E payload \in PayloadKinds :
          smp' = [smp EXCEPT ![Cardinality(Delivered) + 1] =
                     [NoSample EXCEPT !.pc = "decode", !.get = Len(gets), !.payload = payload]]
    /\ UNCHANGED <<subPc, subQos, qos_profile, publishers, hIdx>>

\* subscriber.py:241, 245-248  the replies of this get end, or the get raises
\* (at once, or while iterating) and the except clause logs it; reply.err
\* replies are only logged. The loop goes on to the next publisher.
Sub_IterEnd ==
    /\ subPc = "iter"
    /\ ~ReplyInProgress
    /\ \E raised \in BOOLEAN : gets' = [gets EXCEPT ![Len(gets)].failed = raised]
    /\ hIdx' = hIdx + 1
    /\ subPc' = IF hIdx + 1 = Len(publishers) THEN "ready" ELSE "get"
    /\ UNCHANGED <<subQos, qos_profile, publishers, smp>>

\* subscriber.py:178-180  Zenoh hands a live sample to _listener; it does so
\* only for a declared subscriber.
L_Deliver ==
    /\ subPc \in {"declared", "discover", "get", "iter", "ready"}
    /\ declared["data"]
    /\ Cardinality(Delivered) < MaxSamples
    /\ \E payload \in PayloadKinds :
          smp' = [smp EXCEPT ![Cardinality(Delivered) + 1] =
                     [NoSample EXCEPT !.pc = "decode", !.payload = payload]]
    /\ UNCHANGED <<subPc, subQos, qos_profile, gets, publishers, hIdx>>

\* The checks and the deserialization run outside the try: an exception
\* leaves _process_sample.
SP_Decode_NoTry(s) ==
    /\ smp[s].pc = "decode"
    /\ smp' = [smp EXCEPT ![s].pc = IF smp[s].payload = "cdr" THEN "callback" ELSE "raised"]
    /\ UNCHANGED <<subPc, subQos, qos_profile, gets, publishers, hIdx>>

\* subscriber.py:184-214, 216-217  the payload is taken from the sample,
\* turned into bytes and deserialized; payload None (186), an unsupported
\* type (203), no bytes (211) and a deserialize_cdr that raises (214) all end
\* in the except clause, which logs the error.
SP_Decode(s) ==
    /\ smp[s].pc = "decode"
    /\ smp' = [smp EXCEPT ![s] =
                  IF smp[s].payload = "cdr" THEN [smp[s] EXCEPT !.pc = "callback"]
                                            ELSE [smp[s] EXCEPT !.pc = "done", !.logged = TRUE]]
    /\ UNCHANGED <<subPc, subQos, qos_profile, gets, publishers, hIdx>>

\* subscriber.py:215-217  the user callback is called with the message; when
\* it raises, the except clause logs the error.
SP_Callback(s) ==
    /\ smp[s].pc = "callback"
    /\ \E raises \in BOOLEAN :
          smp' = [smp EXCEPT ![s] = [smp[s] EXCEPT !.pc = "done", !.cbCalls = @ + 1,
                                                   !.logged = raises]]
    /\ UNCHANGED <<subPc, subQos, qos_profile, gets, publishers, hIdx>>

\* The steps of the listener: Zenoh's threads running _listener.
NextListener ==
    \/ L_Deliver /\ UNCHANGED <<instVars, idVars, closeVars, pubVars, srvVars, sessVars, regVars, fnVars, dlvVars, ctorVars>>
    \/ \E s \in Samples :
          \/ SP_Decode(s) /\ UNCHANGED <<instVars, idVars, closeVars, pubVars, srvVars, sessVars, regVars, fnVars, dlvVars, ctorVars>>
          \/ SP_Callback(s) /\ UNCHANGED <<instVars, idVars, closeVars, pubVars, srvVars, sessVars, regVars, fnVars, dlvVars, ctorVars>>

NextSubscriber ==
    \/ Sub_Construct /\ UNCHANGED <<instVars, idVars, closeVars, pubVars, srvVars, sessVars, regVars, fnVars, dlvVars, ctorVars>>
    \/ Sub_CheckDurability /\ UNCHANGED <<instVars, idVars, closeVars, pubVars, srvVars, sessVars, regVars, fnVars, dlvVars, ctorVars>>
    \/ Sub_Discover /\ UNCHANGED <<instVars, idVars, closeVars, pubVars, srvVars, sessVars, regVars, fnVars, dlvVars, ctorVars>>
    \/ Sub_HistoryGet /\ UNCHANGED <<instVars, idVars, closeVars, pubVars, srvVars, sessVars, regVars, fnVars, dlvVars, ctorVars>>
    \/ Sub_ReplyOk /\ UNCHANGED <<instVars, idVars, closeVars, pubVars, srvVars, sessVars, regVars, fnVars, dlvVars, ctorVars>>
    \/ Sub_IterEnd /\ UNCHANGED <<instVars, idVars, closeVars, pubVars, srvVars, sessVars, regVars, fnVars, dlvVars, ctorVars>>
    \/ NextListener

\* ------------------------------------------------------ ZenohSession.close
\* session.py:21  self.session is the object zenoh.open returned; nothing
\* assigns the attribute again, and the object is true in a boolean test.
SessionIsTrue == TRUE

\* The session object after __init__ (session.py:16-31): its Zenoh session
\* is open and it has no _instance attribute of its own.
InitSessionClose ==
    /\ session_open = TRUE
    /\ sessCloseCalls = 0
    /\ self_instance = "unset"
    /\ scPc = [t \in Closers |-> "idle"]
    /\ scResult = [t \in Closers |-> "none"]
    /\ scCalls = 0

\* A thread calls close() on the session object.
SC_Call(t) ==
    /\ scPc[t] = "idle"
    /\ scCalls < MaxSessionCloses
    /\ scCalls' = scCalls + 1
    /\ scPc' = [scPc EXCEPT ![t] = "check"]
    /\ scResult' = [scResult EXCEPT ![t] = "none"]
    /\ UNCHANGED <<session_open, sessCloseCalls, self_instance>>

\* session.py:84  "if self.session:"
SC_Check(t) ==
    /\ scPc[t] = "check"
    /\ IF SessionIsTrue
          THEN /\ scPc' = [scPc EXCEPT ![t] = "close"]
               /\ UNCHANGED scResult
          ELSE /\ scPc' = [scPc EXCEPT ![t] = "idle"]
               /\ scResult' = [scResult EXCEPT ![t] = "returned"]
    /\ UNCHANGED <<session_open, sessCloseCalls, self_instance, scCalls>>

\* session.py:85  "self.session.close()": closes the Zenoh session; on a
\* session that is already closed the call returns or raises, and an
\* exception leaves close() (there is no try).
SC_Close(t) ==
    /\ scPc[t] = "close"
    /\ sessCloseCalls' = sessCloseCalls + 1
    /\ session_open' = FALSE
    /\ \/ /\ scPc' = [scPc EXCEPT ![t] = "clear"]
          /\ UNCHANGED scResult
       \/ /\ ~session_open
          /\ scPc' = [scPc EXCEPT ![t] = "idle"]
          /\ scResult' = [scResult EXCEPT ![t] = "raised"]
    /\ UNCHANGED <<self_instance, scCalls>>

\* session.py:86  "self._instance = None": sets an attribute of the object
\* (the class attribute ZenohSession._instance is not touched); close() returns.
SC_Clear(t) ==
    /\ scPc[t] = "clear"
    /\ self_instance' = "None"
    /\ scPc' = [scPc EXCEPT ![t] = "idle"]
    /\ scResult' = [scResult EXCEPT ![t] = "returned"]
    /\ UNCHANGED <<session_open, sessCloseCalls, scCalls>>

NextSessionClose ==
    \E t \in Closers :
        \/ SC_Call(t) /\ UNCHANGED <<instVars, idVars, closeVars, pubVars, srvVars, subVars, regVars, fnVars, dlvVars, ctorVars>>
        \/ SC_Check(t) /\ UNCHANGED <<instVars, idVars, closeVars, pubVars, srvVars, subVars, regVars, fnVars, dlvVars, ctorVars>>
        \/ SC_Close(t) /\ UNCHANGED <<instVars, idVars, closeVars, pubVars, srvVars, subVars, regVars, fnVars, dlvVars, ctorVars>>
        \/ SC_Clear(t) /\ UNCHANGED <<instVars, idVars, closeVars, pubVars, srvVars, subVars, regVars, fnVars, dlvVars, ctorVars>>

\* ----------------------------------- ZenohSession.register_message_type
RegThreads == 1..NRegThreads
TypeNames == {"pkg/msg/A", "pkg/msg/B"}
\* Message definitions callers pass; "" asks for the message registry.
Definitions == {"", "string data", "int32 data"}
\* The .msg file the message registry finds for a type, "" when it finds none
\* (message_registry.py:33-72).
RegistryFile(name) == IF name = "pkg/msg/A" THEN "string data" ELSE ""

NoSeen == [registered |-> FALSE, definition |-> "", cls |-> 0]
NoReturn == [ended |-> "none", cls |-> 0]

\* session.py:22-23  an empty type store and no registered types.
InitRegister ==
    /\ registered_types = [n \in TypeNames |-> ""]
    /\ store_types = [n \in TypeNames |-> 0]
    /\ store_defs = [n \in TypeNames |-> ""]
    /\ classCount = 0
    /\ loaded_types = {}
    /\ rPc = [t \in RegThreads |-> "idle"]
    /\ rArg = [t \in RegThreads |-> [name |-> "pkg/msg/A", definition |-> ""]]
    /\ rSeen = [t \in RegThreads |-> NoSeen]
    /\ rRet = [t \in RegThreads |-> NoReturn]
    /\ rCalls = 0

\* The call ends by raising.
RegRaise(t) ==
    /\ rPc' = [rPc EXCEPT ![t] = "idle"]
    /\ rRet' = [rRet EXCEPT ![t] = [ended |-> "raised", cls |-> 0]]

\* A thread calls register_message_type(msg_definition, ros2_type_name).
Reg_Call(t) ==
    /\ rPc[t] = "idle"
    /\ rCalls < MaxRegCalls
    /\ rCalls' = rCalls + 1
    /\ \E name \in TypeNames, definition \in Definitions :
          /\ rArg' = [rArg EXCEPT ![t] = [name |-> name, definition |-> definition]]
          /\ rSeen' = [rSeen EXCEPT ![t] =
                          IF registered_types[name] # ""
                             THEN [registered |-> TRUE, definition |-> registered_types[name],
                                   cls |-> store_types[name]]
                             ELSE NoSeen]
    /\ rPc' = [rPc EXCEPT ![t] = "check"]
    /\ rRet' = [rRet EXCEPT ![t] = NoReturn]
    /\ UNCHANGED <<registered_types, store_types, store_defs, classCount, loaded_types>>

\* session.py:44, 46  "if ros2_type_name not in self._registered_types:" and
\* "if not msg_definition.strip():"
Reg_Check(t) ==
    /\ rPc[t] = "check"
    /\ rPc' = [rPc EXCEPT ![t] =
                  IF registered_types[rArg[t].name] # "" THEN "ret"
                  ELSE IF rArg[t].definition = "" THEN "registry" ELSE "parse"]
    /\ UNCHANGED <<registered_types, store_types, store_defs, classCount, loaded_types,
                   rArg, rSeen, rRet, rCalls>>

\* session.py:58  self.store.register(types), as the rosbags type store does
\* it: a name the store does not hold gets a newly generated class; a name it
\* holds with the same fields is left alone; with other fields the call raises.
StoreRegisterRaises(name, definition) ==
    store_defs[name] # "" /\ store_defs[name] # definition
StoreRegister(name, definition) ==
    IF store_defs[name] = ""
       THEN /\ classCount' = classCount + 1
            /\ store_types' = [store_types EXCEPT ![name] = classCount + 1]
            /\ store_defs' = [store_defs EXCEPT ![name] = definition]
       ELSE UNCHANGED <<classCount, store_types, store_defs>>

\* session.py:47-55  the definition is empty: a type the message registry has
\* loaded is returned from the store (48-50); else the registry loads it (51).
\* _load_dependencies returns without an error when it finds no .msg file
\* (message_registry.py:91-96), so load_message_type returns True and the
\* call returns store.types.get(name), None (cls 0) when the store does not
\* hold the name (53). With a file, its text is registered through
\* register_message_type (message_registry.py:111-113); an exception there
\* makes load_message_type return False (180-182) and the call raise
\* ValueError (55).
Reg_Registry(t) ==
    /\ rPc[t] = "registry"
    /\ LET name == rArg[t].name
           file == RegistryFile(name)
       IN  IF name \in loaded_types
              THEN /\ rPc' = [rPc EXCEPT ![t] = "idle"]
                   /\ rRet' = [rRet EXCEPT ![t] = [ended |-> "returned", cls |-> store_types[name]]]
                   /\ UNCHANGED <<registered_types, store_types, store_defs, classCount,
                                  loaded_types>>
           ELSE IF file = ""
              THEN /\ rPc' = [rPc EXCEPT ![t] = "idle"]
                   /\ rRet' = [rRet EXCEPT ![t] = [ended |-> "returned", cls |-> store_types[name]]]
                   /\ UNCHANGED <<registered_types, store_types, store_defs, classCount,
                                  loaded_types>>
           ELSE IF ~(registered_types[name] = "" /\ StoreRegisterRaises(name, file))
              THEN /\ IF registered_types[name] = ""
                         THEN /\ StoreRegister(name, file)
                              /\ registered_types' = [registered_types EXCEPT ![name] = file]
                         ELSE UNCHANGED <<registered_types, store_types, store_defs, classCount>>
                   /\ loaded_types' = loaded_types \cup {name}
                   /\ rPc' = [rPc EXCEPT ![t] = "idle"]
                   /\ rRet' = [rRet EXCEPT ![t] =
                                  [ended |-> "returned", cls |-> store_types'[name]]]
           ELSE /\ RegRaise(t)
                /\ UNCHANGED <<registered_types, store_types, store_defs, classCount,
                               loaded_types>>
    /\ UNCHANGED <<rArg, rSeen, rCalls>>

\* The store entry is written whatever the store holds under the name.
Reg_Parse_Overwrites(t) ==
    /\ rPc[t] = "parse"
    /\ classCount' = classCount + 1
    /\ store_types' = [store_types EXCEPT ![rArg[t].name] = classCount + 1]
    /\ store_defs' = [store_defs EXCEPT ![rArg[t].name] = rArg[t].definition]
    /\ rPc' = [rPc EXCEPT ![t] = "record"]
    /\ UNCHANGED <<registered_types, loaded_types, rArg, rSeen, rRet, rCalls>>

\* session.py:57-58  the definition is parsed and registered in the store.
Reg_Parse(t) ==
    /\ rPc[t] = "parse"
    /\ IF StoreRegisterRaises(rArg[t].name, rArg[t].definition)
          THEN /\ RegRaise(t)
               /\ UNCHANGED <<store_types, store_defs, classCount>>
          ELSE /\ StoreRegister(rArg[t].name, rArg[t].definition)
               /\ rPc' = [rPc EXCEPT ![t] = "record"]
               /\ UNCHANGED rRet
    /\ UNCHANGED <<registered_types, loaded_types, rArg, rSeen, rCalls>>

\* session.py:59  "self._registered_types[ros2_type_name] = types"
Reg_Record(t) ==
    /\ rPc[t] = "record"
    /\ registered_types' = [registered_types EXCEPT ![rArg[t].name] = rArg[t].definition]
    /\ rPc' = [rPc EXCEPT ![t] = "ret"]
    /\ UNCHANGED <<store_types, store_defs, classCount, loaded_types, rArg, rSeen, rRet, rCalls>>

\* session.py:60  "return self.store.types[ros2_type_name]"
Reg_Return(t) ==
    /\ rPc[t] = "ret"
    /\ rPc' = [rPc EXCEPT ![t] = "idle"]
    /\ rRet' = [rRet EXCEPT ![t] = [ended |-> "returned", cls |-> store_types[rArg[t].name]]]
    /\ UNCHANGED <<registered_types, store_types, store_defs, classCount, loaded_types,
                   rArg, rSeen, rCalls>>

NextRegister ==
    \E t \in RegThreads :
        \/ Reg_Call(t) /\ UNCHANGED <<instVars, idVars, closeVars, pubVars, srvVars, subVars, sessVars, fnVars, dlvVars, ctorVars>>
        \/ Reg_Check(t) /\ UNCHANGED <<instVars, idVars, closeVars, pubVars, srvVars, subVars, sessVars, fnVars, dlvVars, ctorVars>>
        \/ Reg_Registry(t) /\ UNCHANGED <<instVars, idVars, closeVars, pubVars, srvVars, subVars, sessVars, fnVars, dlvVars, ctorVars>>
        \/ Reg_Parse(t) /\ UNCHANGED <<instVars, idVars, closeVars, pubVars, srvVars, subVars, sessVars, fnVars, dlvVars, ctorVars>>
        \/ Reg_Record(t) /\ UNCHANGED <<instVars, idVars, closeVars, pubVars, srvVars, subVars, sessVars, fnVars, dlvVars, ctorVars>>
        \/ Reg_Return(t) /\ UNCHANGED <<instVars, idVars, closeVars, pubVars, srvVars, subVars, sessVars, fnVars, dlvVars, ctorVars>>

\* ------------------------------------------------ functions of utils.py
\* No function is being called.
InitFunctions ==
    /\ fnName = "none"
    /\ fnArgs = <<>>
    /\ fnDone = FALSE
    /\ fnResult = <<>>

\* ---- the domain an endpoint uses
NotPassed == [passed |-> FALSE, value |-> 0]
\* The domain_id argument of a constructor: not passed, or a domain.
DomainArgs == {NotPassed} \cup {[passed |-> TRUE, value |-> d] : d \in 0..MaxDomain}
\* The environment variable ROS_DOMAIN_ID: unset, or a domain.
EnvValues == {[set |-> FALSE, value |-> 0]} \cup {[set |-> TRUE, value |-> d] : d \in 0..MaxDomain}

\* utils.resolve_domain_id (called at subscriber.py:59): the argument when one
\* is passed, else ROS_DOMAIN_ID, else 0.
resolve_domain_id(domain_id, env) ==
    IF domain_id.passed THEN domain_id.value
    ELSE IF env.set THEN env.value ELSE 0

\* self.domain_id of a constructed endpoint. publisher.py:28, 49 and
\* service_server.py:31, 55: the parameter "domain_id: int = 0" is stored as
\* it is; subscriber.py:29, 59: "domain_id = None" goes through
\* resolve_domain_id.
EndpointDomain(kind, domain_id, env) ==
    IF kind = "sub"
       THEN resolve_domain_id(domain_id, env)
       ELSE IF domain_id.passed THEN domain_id.value ELSE 0

\* The data key expression (publisher.py:109, service_server.py:176,
\* subscriber.py:119): the domain is its first segment.
DataKeyexpr(domain, name) == <<domain, name>>
\* The liveliness tokens (publisher.py:128-141, service_server.py:204-219,
\* subscriber.py:155-176): the domain follows the prefix.
LivelinessKeyexpr(domain, kind) == <<"@ros2_lv", domain, kind>>

InitDomain ==
    /\ fnName = "domain"
    /\ fnArgs \in [domain_id : DomainArgs, env : EnvValues]
    /\ fnDone = FALSE
    /\ fnResult = <<>>

\* The constructor of an endpoint of class epKind runs with fnArgs.
Construct_Domain ==
    /\ fnName = "domain"
    /\ ~fnDone
    /\ fnDone' = TRUE
    /\ LET domain == EndpointDomain(epKind, fnArgs.domain_id, fnArgs.env) IN
          fnResult' = [domain_id |-> domain,
                       keyexpr |-> DataKeyexpr(domain, "chatter"),
                       tokens |-> {LivelinessKeyexpr(domain, "NN"),
                                   LivelinessKeyexpr(domain, epKind)}]
    /\ UNCHANGED <<fnName, fnArgs>>

NextDomain ==
    Construct_Domain /\ UNCHANGED <<instVars, idVars, closeVars, pubVars, srvVars, subVars, sessVars, regVars, dlvVars, ctorVars>>

\* ---- strings: a str is the sequence of its characters
\* s.split(sep) for a one-character sep: the parts between the separators.
RECURSIVE Split(_, _)
Split(s, sep) ==
    IF s = <<>> THEN << <<>> >>
    ELSE LET rest == Split(Tail(s), sep) IN
         IF Head(s) = sep THEN << <<>> >> \o rest
         ELSE << <<Head(s)>> \o Head(rest) >> \o Tail(rest)

\* s.replace(old, new) for a one-character old.
RECURSIVE Replace(_, _, _)
Replace(s, old, new) ==
    IF s = <<>> THEN <<>>
    ELSE (IF Head(s) = old THEN new ELSE <<Head(s)>>) \o Replace(Tail(s), old, new)

\* sep.join(parts)
RECURSIVE Join(_, _)
Join(parts, sep) ==
    IF parts = <<>> THEN <<>>
    ELSE IF Len(parts) = 1 THEN Head(parts)
    ELSE Head(parts) \o sep \o Join(Tail(parts), sep)

\* c.upper() for the letters the names below use.
Upper(c) ==
    CASE c = "p" -> "P" [] c = "k" -> "K" [] c = "g" -> "G" [] c = "m" -> "M"
      [] c = "s" -> "S" [] c = "r" -> "R" [] c = "v" -> "V" [] c = "t" -> "T"
      [] c = "w" -> "W" [] c = "i" -> "I" [] c = "d" -> "D"
      [] OTHER -> c

\* ---- ros2_to_dds_type
ColonColon == <<":", ":">>
DdsInfix == <<"d", "d", "s", "_">>
MsgPart == <<"m", "s", "g">>
SrvPart == <<"s", "r", "v">>

\* utils.py:6-15  ros2_to_dds_type
ros2_to_dds_type(ros2_type) ==
    LET parts == Split(ros2_type, "/") IN
    IF Len(parts) = 3
       THEN LET message_name == IF parts[3] # <<>>
                                   THEN <<Upper(parts[3][1])>> \o Tail(parts[3])
                                   ELSE <<>>
            IN  parts[1] \o ColonColon \o MsgPart \o ColonColon \o DdsInfix
                    \o ColonColon \o message_name \o <<"_">>
       ELSE Replace(ros2_type, "/", ColonColon)

\* The parts type names are put together from: pkg, msg, srv, twist, Twist
\* and the empty part.
NameParts == {<<"p", "k", "g">>, MsgPart, SrvPart, <<"t", "w", "i", "s", "t">>,
              <<"T", "w", "i", "s", "t">>, <<>>}
RECURSIVE PartLists(_)
PartLists(n) ==
    IF n = 0 THEN {<<>>}
    ELSE {<<part>> \o list : part \in NameParts, list \in PartLists(n - 1)}
\* Type names of one to MaxParts parts.
TypeNameParts == UNION {PartLists(n) : n \in 1..MaxParts}

InitDdsType ==
    /\ fnName = "ros2_to_dds_type"
    /\ fnArgs \in TypeNameParts
    /\ fnDone = FALSE
    /\ fnResult = <<>>

\* ros2_to_dds_type is called with the name whose parts are fnArgs.
Call_ros2_to_dds_type ==
    /\ fnName = "ros2_to_dds_type"
    /\ ~fnDone
    /\ fnDone' = TRUE
    /\ fnResult' = ros2_to_dds_type(Join(fnArgs, <<"/">>))
    /\ UNCHANGED <<fnName, fnArgs>>

NextDdsType ==
    Call_ros2_to_dds_type /\ UNCHANGED <<instVars, idVars, closeVars, pubVars, srvVars, subVars, sessVars, regVars, dlvVars, ctorVars>>

\* ---- mangle_name
\* Only a leading slash is replaced.
mangle_name_LeadingOnly(name) ==
    IF name = <<>> \/ name = <<"/">>
       THEN <<"%">>
       ELSE IF Head(name) = "/" THEN <<"%">> \o Tail(name) ELSE name

\* utils.py:28-32  mangle_name
mangle_name(name) ==
    IF name = <<>> \/ name = <<"/">>
       THEN <<"%">>
       ELSE Replace(name, "/", <<"%">>)

\* The characters of the names mangled: a slash, a percent sign, a letter.
NameChars == {"/", "%", "a"}
RECURSIVE NamesOfLen(_)
NamesOfLen(n) ==
    IF n = 0 THEN {<<>>}
    ELSE {<<c>> \o name : c \in NameChars, name \in NamesOfLen(n - 1)}
Names == UNION {NamesOfLen(n) : n \in 0..MaxNameLen}

InitMangle ==
    /\ fnName = "mangle_name"
    /\ fnArgs \in Names
    /\ fnDone = FALSE
    /\ fnResult = <<>>

Call_mangle_name ==
    /\ fnName = "mangle_name"
    /\ ~fnDone
    /\ fnDone' = TRUE
    /\ fnResult' = mangle_name(fnArgs)
    /\ UNCHANGED <<fnName, fnArgs>>

NextMangle ==
    Call_mangle_name /\ UNCHANGED <<instVars, idVars, closeVars, pubVars, srvVars, subVars, sessVars, regVars, dlvVars, ctorVars>>

\* ---- get_type_hash
\* A type hash is its prefix and the bytes its 64 hexadecimal digits write.
\* RIHS01_df668c740482bbd48fb39d76a70dfd4bd59db1288021743503259e948f6b1a18
StringHash ==
    [prefix |-> "RIHS01_",
     digest |-> <<223, 102, 140, 116, 4, 130, 187, 212, 143, 179, 157, 118, 167, 13, 253, 75,
          213, 157, 177, 40, 128, 33, 116, 53, 3, 37, 158, 148, 143, 107, 26, 24>>]
\* RIHS01_ followed by 64 zeros (utils.py:23, 25).
ZeroHash == [prefix |-> "RIHS01_", digest |-> [i \in 1..32 |-> 0]]
NoHash == [prefix |-> "", digest |-> <<>>]

TypeOf(pkg, kind, name) == [pkg |-> pkg, kind |-> kind, name |-> name]
\* utils.py:21-24  common_hashes
common_hashes ==
    TypeOf("std_msgs", "msg", "String") :> StringHash
        @@ TypeOf("std_msgs", "msg", "Int32") :> ZeroHash

\* utils.py:18-25  get_type_hash(msg_type): its only parameter is msg_type,
\* so a call with keyword arguments (tests/test_utils.py:37, publisher.py:98,
\* subscriber.py:110) raises TypeError; else the hash is looked up in
\* common_hashes, with the zero hash as the default.
get_type_hash(msg_type, keywords) ==
    IF keywords # {}
       THEN [raised |-> "TypeError", value |-> NoHash]
       ELSE [raised |-> "none",
             value |-> IF msg_type \in DOMAIN common_hashes
                          THEN common_hashes[msg_type] ELSE ZeroHash]

\* The types get_type_hash is called for, and the keyword arguments of the call.
HashedTypes ==
    [pkg : {"std_msgs", "geometry_msgs", "example_interfaces", "unknown"},
     kind : {"msg", "srv"},
     name : {"String", "Int32", "Twist", "Vector3", "Bool", "AddTwoInts", "Type"}]
HashKeywords == {{}, {"msg_definition"}, {"msg_definition", "dependencies"}}

InitTypeHash ==
    /\ fnName = "get_type_hash"
    /\ fnArgs \in [msg_type : HashedTypes, keywords : HashKeywords]
    /\ fnDone = FALSE
    /\ fnResult = <<>>

Call_get_type_hash ==
    /\ fnName = "get_type_hash"
    /\ ~fnDone
    /\ fnDone' = TRUE
    /\ fnResult' = get_type_hash(fnArgs.msg_type, fnArgs.keywords)
    /\ UNCHANGED <<fnName, fnArgs>>

NextTypeHash ==
    Call_get_type_hash /\ UNCHANGED <<instVars, idVars, closeVars, pubVars, srvVars, subVars, sessVars, regVars, dlvVars, ctorVars>>

\* ---- attachments built and parsed
\* Sequence numbers and timestamps around the byte boundaries, up to the
\* largest integer the checker holds (2^31 - 1).
SeqValues == {0, 1, 255, 256, 65535, 65536, 2147483647}
TimeValues == {0, 256, 16777216, 2147483647}
\* GID lengths: none, one byte, a uuid's 16, the most a length byte holds.
GidLens == {0, 1, GidLen, 255}
GidOfLen(n) == [i \in 1..n |-> (7 * i) % 256]

InitAttachment ==
    /\ fnName = "attachment"
    /\ fnArgs \in [maker : {"publisher", "server"}, seq : SeqValues,
                    timestamp : TimeValues, gid_len : GidLens]
    /\ fnDone = FALSE
    /\ fnResult = <<>>

\* The attachment is built, by a publisher's _create_attachment or by the
\* server's _create_response_attachment, and _parse_attachment is applied
\* to it.
Call_attachment ==
    /\ fnName = "attachment"
    /\ ~fnDone
    /\ fnDone' = TRUE
    /\ LET gid == GidOfLen(fnArgs.gid_len)
           attachment ==
               IF fnArgs.maker = "publisher"
                  THEN CreateAttachment(fnArgs.seq, fnArgs.timestamp, gid)
                  ELSE CreateResponseAttachment(fnArgs.seq, gid, fnArgs.timestamp)
       IN  fnResult' = [attachment |-> attachment, parsed |-> ParseAttachment(attachment)]
    /\ UNCHANGED <<fnName, fnArgs>>

NextAttachment ==
    Call_attachment /\ UNCHANGED <<instVars, idVars, closeVars, pubVars, srvVars, subVars, sessVars, regVars, dlvVars, ctorVars>>

\* ---- MessageRegistry.load_message_type
DepTypes == {"pkg/msg/A", "pkg/msg/B", "pkg/msg/C"}
TypeOrder == <<"pkg/msg/A", "pkg/msg/B", "pkg/msg/C">>
\* What the registry finds for a type: no .msg file, or a file whose fields
\* refer to the types deps (message_registry.py:91-103).
NoFile == [exists |-> FALSE, deps |-> {}]
FileOptions == {NoFile} \cup {[exists |-> TRUE, deps |-> deps] : deps \in SUBSET DepTypes}
\* The list _extract_dependencies returns (message_registry.py:115-165).
DepsSeq(deps) == SelectSeq(TypeOrder, LAMBDA type : type \in deps)
\* A registry and a session that have loaded and registered nothing. calls:
\* the register_message_type calls made (message_registry.py:112), reads:
\* the types whose .msg file was read (98-100), invocations: how many times
\* _load_dependencies was entered.
FreshRegistry == [loaded |-> {}, registered |-> {}, calls |-> <<>>, reads |-> <<>>,
                  invocations |-> 0]

\* message_registry.py:74-113  _load_dependencies(msg_type, visited): st is
\* the registry's _loaded_types and the session's _registered_types. A type
\* already visited or loaded, or without a file, is left alone (85-96); the
\* dependencies are loaded with a copy of visited (106-108); then the type
\* is registered and recorded as loaded (111-113).
RECURSIVE LoadDependencies(_, _, _, _)
RECURSIVE LoadEach(_, _, _, _)
\* The type is registered but never added to _loaded_types.
LoadDependencies_NotRecorded(files, msg_type, visited, st) ==
    LET entered == [st EXCEPT !.invocations = @ + 1] IN
    IF msg_type \in visited \/ msg_type \in st.loaded THEN entered
    ELSE IF ~files[msg_type].exists THEN entered
    ELSE LET after == LoadEach(files, DepsSeq(files[msg_type].deps),
                               visited \cup {msg_type},
                               [entered EXCEPT !.reads = Append(@, msg_type)])
         IN  [after EXCEPT !.registered = @ \cup {msg_type},
                           !.calls = IF msg_type \in after.registered
                                        THEN @ ELSE Append(@, msg_type)]

LoadDependencies(files, msg_type, visited, st) ==
    LET entered == [st EXCEPT !.invocations = @ + 1] IN
    IF msg_type \in visited \/ msg_type \in st.loaded THEN entered
    ELSE IF ~files[msg_type].exists THEN entered
    ELSE LET after == LoadEach(files, DepsSeq(files[msg_type].deps),
                               visited \cup {msg_type},
                               [entered EXCEPT !.reads = Append(@, msg_type)])
         IN  [after EXCEPT !.loaded = @ \cup {msg_type},
                           !.registered = @ \cup {msg_type},
                           !.calls = IF msg_type \in after.registered
                                        THEN @ ELSE Append(@, msg_type)]
\* message_registry.py:106-108  the loop over the dependencies.
LoadEach(files, deps, visited, st) ==
    IF deps = <<>> THEN st
    ELSE LoadEach(files, Tail(deps), visited,
                  IF Head(deps) \notin st.loaded
                     THEN LoadDependencies(files, Head(deps), visited, st)
                     ELSE st)

\* message_registry.py:167-182  load_message_type: True unless
\* _load_dependencies raised, and nothing in it raises on a fresh store.
load_message_type(files, msg_type) ==
    LET st == LoadDependencies(files, msg_type, {}, FreshRegistry) IN
    [returned |-> TRUE, loaded |-> st.loaded, registered |-> st.registered,
     calls |-> st.calls, reads |-> st.reads, invocations |-> st.invocations]

InitLoad ==
    /\ fnName = "load_message_type"
    /\ fnArgs \in [files : [DepTypes -> FileOptions], msg_type : DepTypes]
    /\ fnDone = FALSE
    /\ fnResult = <<>>

Call_load_message_type ==
    /\ fnName = "load_message_type"
    /\ ~fnDone
    /\ fnDone' = TRUE
    /\ fnResult' = load_message_type(fnArgs.files, fnArgs.msg_type)
    /\ UNCHANGED <<fnName, fnArgs>>

NextLoad ==
    Call_load_message_type /\ UNCHANGED <<instVars, idVars, closeVars, pubVars, srvVars, subVars, sessVars, regVars, dlvVars, ctorVars>>

\* ---- ROS2ServiceServer.__init__ called with keyword arguments
\* service_server.py:22-35  the parameters of __init__ (self aside).
ServerInitParameters ==
    {"service_name", "srv_type", "callback", "request_definition", "response_definition",
     "node_name", "namespace", "domain_id", "router_ip", "router_port", "type_hash"}
\* service_server.py:19-378  the methods the class defines.
ServerMethods ==
    {"__init__", "_declare_liveliness_tokens", "_parse_attachment",
     "_create_response_attachment", "_query_handler", "close"}
\* The keywords every call passes, and those a call may add
\* (examples/10_service_server_queue.py:24-29 adds mode).
RequiredKeywords == {"service_name", "srv_type", "callback"}
OptionalKeywords ==
    {"request_definition", "node_name", "namespace", "domain_id", "type_hash", "mode"}

\* ROS2ServiceServer(**keywords): a keyword that is no parameter makes the
\* call raise TypeError before the body runs; else the queryable is
\* declared with _query_handler as its handler (service_server.py:188-192),
\* which calls self.callback for every well-formed query (338).
ServerInit(keywords) ==
    IF keywords \subseteq ServerInitParameters
       THEN [raised |-> "none", handler |-> "_query_handler", methods |-> ServerMethods]
       ELSE [raised |-> "TypeError", handler |-> "", methods |-> {}]

InitServerInit ==
    /\ fnName = "ROS2ServiceServer"
    /\ fnArgs \in [keywords : {RequiredKeywords \cup extra : extra \in SUBSET OptionalKeywords},
                    callback : {"None", "function"}]
    /\ fnDone = FALSE
    /\ fnResult = <<>>

Call_ServerInit ==
    /\ fnName = "ROS2ServiceServer"
    /\ ~fnDone
    /\ fnDone' = TRUE
    /\ fnResult' = ServerInit(fnArgs.keywords)
    /\ UNCHANGED <<fnName, fnArgs>>

NextServerInit ==
    Call_ServerInit /\ UNCHANGED <<instVars, idVars, closeVars, pubVars, srvVars, subVars, sessVars, regVars, dlvVars, ctorVars>>

\* ------------------------------------------- from publish() to the callback
DeliveryPublishers == 1..NPublishers
Topics == {<<"/", "multi">>, <<"/", "other">>}
EndpointConfigs == [domain : {0, 1}, topic : Topics]
\* The subscriber: domain 0, topic /multi.
SubscriberConfig == [domain |-> 0, topic |-> <<"/", "multi">>]
\* Both sides use std_msgs/msg/String and its type hash.
StringDdsType == "std_msgs::msg::dds_::String_"
StringTypeHash == "RIHS01_df668c740482bbd48fb39d76a70dfd4bd59db1288021743503259e948f6b1a18"

\* topic.lstrip("/")
RECURSIVE Lstrip(_)
Lstrip(topic) ==
    IF topic # <<>> /\ Head(topic) = "/" THEN Lstrip(Tail(topic)) ELSE topic

\* The topic enters the key expression as it was passed.
PublisherKeyexpr_NoLstrip(config) ==
    <<config.domain>> \o config.topic \o <<StringDdsType, StringTypeHash>>

\* publisher.py:108-109  "{domain_id}/{topic.lstrip('/')}/{dds_type}/{type_hash}"
PublisherKeyexpr(config) ==
    <<config.domain>> \o Lstrip(config.topic) \o <<StringDdsType, StringTypeHash>>

\* keyexpr.topic_keyexpr (called at subscriber.py:119):
\* <domain>/<topic-without-leading-slash>/<dds_type>/<type_hash>
SubscriberKeyexpr(config) ==
    <<config.domain>> \o Lstrip(config.topic) \o <<StringDdsType, StringTypeHash>>

\* The data of the n-th String message publisher p publishes, as character
\* codes: "A1", "A2", "B1", ...
MessageData(p, n) == <<64 + p, 48 + n>>

\* store.serialize_cdr of a String message (publisher.py:165): the
\* encapsulation header, the length of the string with its terminator as 4
\* bytes little-endian, the characters, the terminator.
SerializeCdr(data) == <<0, 1, 0, 0>> \o PackLE(Len(data) + 1, 4) \o data \o <<0>>

\* store.deserialize_cdr of a String message (subscriber.py:214); it raises
\* (ok FALSE) on bytes that are no such message.
DeserializeCdr(bytes) ==
    IF Len(bytes) < 9 \/ SubSeq(bytes, 1, 4) # <<0, 1, 0, 0>>
       THEN [ok |-> FALSE, data |-> <<>>]
       ELSE LET n == UnpackLE(SubSeq(bytes, 5, 8)) IN
            IF n < 1 \/ Len(bytes) < 8 + n
               THEN [ok |-> FALSE, data |-> <<>>]
               ELSE [ok |-> TRUE, data |-> SubSeq(bytes, 9, 7 + n)]

\* Publishers just constructed on the subscriber's domain and topic.
InitDelivery ==
    /\ dConfig = [p \in DeliveryPublishers |-> SubscriberConfig]
    /\ dSequence = [p \in DeliveryPublishers |-> 0]
    /\ dFlight = [p \in DeliveryPublishers |-> <<>>]
    /\ dReceived = {}

\* Publishers just constructed, each on a domain and a topic of its own.
InitDeliveryEndpoints ==
    /\ dConfig \in [DeliveryPublishers -> EndpointConfigs]
    /\ dSequence = [p \in DeliveryPublishers |-> 0]
    /\ dFlight = [p \in DeliveryPublishers |-> <<>>]
    /\ dReceived = {}

\* publisher.py:154-173  publish(data=...) of publisher p: the message is
\* serialized, put under the publisher's key expression and counted. Zenoh
\* routes the sample to the subscriber when the subscriber's key expression
\* is the sample's.
D_Publish(p) ==
    /\ dSequence[p] < MaxSent
    /\ LET cdr_bytes == SerializeCdr(MessageData(p, dSequence[p] + 1)) IN
          dFlight' = [dFlight EXCEPT ![p] =
                         IF PublisherKeyexpr(dConfig[p]) = SubscriberKeyexpr(SubscriberConfig)
                            THEN Append(@, cdr_bytes) ELSE @]
    /\ dSequence' = [dSequence EXCEPT ![p] = @ + 1]
    /\ UNCHANGED <<dConfig, dReceived>>

\* subscriber.py:178-217  Zenoh calls _listener with p's oldest sample in
\* flight: _process_sample takes the bytes, raises inside the try on none
\* (211), deserializes them (214) and calls the callback with the message
\* (215); an exception is logged and the sample dropped.
D_Listener(p) ==
    /\ dFlight[p] # <<>>
    /\ LET cdr_bytes == Head(dFlight[p])
           msg == DeserializeCdr(cdr_bytes)
       IN  dReceived' = IF cdr_bytes # <<>> /\ msg.ok
                           THEN dReceived \cup {msg.data} ELSE dReceived
    /\ dFlight' = [dFlight EXCEPT ![p] = Tail(@)]
    /\ UNCHANGED <<dConfig, dSequence>>

NextDelivery ==
    \E p \in DeliveryPublishers :
        \/ D_Publish(p) /\ UNCHANGED <<instVars, idVars, closeVars, pubVars, srvVars, subVars, sessVars, regVars, fnVars, ctorVars>>
        \/ D_Listener(p) /\ UNCHANGED <<instVars, idVars, closeVars, pubVars, srvVars, subVars, sessVars, regVars, fnVars, ctorVars>>

\* ---- liveliness discovery of publishers
\* Key expressions are strings whose pieces are "/", "%", "*" and runs of
\* other characters.
LvPrefix == <<"@ros2_lv">>
SessionId == <<"zid1">>
NodeName == <<"node">>
DefaultQos == <<"::,7:,:,:,,">>
Namespaces == {<<"/">>, <<"/", "a">>}
\* The f-string "a/b/c" of the given parts.
Slashed(parts) ==
    IF parts = <<>> THEN <<>>
    ELSE LET RECURSIVE Rest(_)
             Rest(ps) == IF ps = <<>> THEN <<>> ELSE <<"/">> \o Head(ps) \o Rest(Tail(ps))
         IN  Head(parts) \o Rest(Tail(parts))

\* publisher.py:121-141  the publisher (MP) token of a publisher on domain 0
\* with node id 0 and entity id 1.
PublisherTokenKeyexpr(namespace, topic) ==
    Slashed(<<LvPrefix, <<"0">>, SessionId, <<"0">>, <<"1">>, <<"MP">>, <<"%">>,
              mangle_name(namespace), NodeName, mangle_name(topic),
              <<StringDdsType>>, <<StringTypeHash>>, DefaultQos>>)

\* subscriber.py:263-266  lv_pattern of a subscriber on domain 0: the topic
\* enters as "%" followed by topic.lstrip('/').
DiscoverySelector(topic) ==
    Slashed(<<LvPrefix, <<"0">>, <<"*">>, <<"*">>, <<"*">>, <<"MP">>, <<"*">>, <<"*">>,
              <<"*">>, <<"%">> \o Lstrip(topic), <<StringDdsType>>, <<StringTypeHash>>,
              <<"*">>>>)

\* Zenoh's matching of a selector without "**" against a key: chunk by
\* chunk, "*" standing for any one chunk.
KeMatches(selector, key) ==
    LET sel == Split(selector, "/")
        chunks == Split(key, "/")
    IN  /\ Len(sel) = Len(chunks)
        /\ \A i \in 1..Len(sel) : sel[i] = <<"*">> \/ sel[i] = chunks[i]

InitDiscovery ==
    /\ fnName = "_discover_publishers"
    /\ fnArgs \in [topic : Names, namespace : Namespaces]
    /\ fnDone = FALSE
    /\ fnResult = <<>>

\* subscriber.py:253-278  _discover_publishers while a publisher of the
\* same topic is declared: the liveliness get replies with the tokens the
\* selector matches, and parts[2] of each reply's key is collected.
Call_discover_publishers ==
    /\ fnName = "_discover_publishers"
    /\ ~fnDone
    /\ fnDone' = TRUE
    /\ LET token == PublisherTokenKeyexpr(fnArgs.namespace, fnArgs.topic)
           matched == KeMatches(DiscoverySelector(fnArgs.topic), token)
       IN  fnResult' = [matched |-> matched,
                        publishers |-> IF matched /\ Len(Split(token, "/")) > 2
                                          THEN {Split(token, "/")[3]} ELSE {}]
    /\ UNCHANGED <<fnName, fnArgs>>

NextDiscovery ==
    Call_discover_publishers /\ UNCHANGED <<instVars, idVars, closeVars, pubVars, srvVars, subVars, sessVars, regVars, dlvVars, ctorVars>>

\* ------------------------------------------- the endpoint constructors
\* ROS2Publisher.__init__ (publisher.py:22-119), ROS2Subscriber.__init__
\* (subscriber.py:31-133), ROS2ServiceServer.__init__ (service_server.py:22-195).
\* The constructor has returned: the state the other operations start from.
InitConstructed == ctorPc = "returned"

\* Before the constructor: nothing is declared, no attribute is set.
InitConstruct ==
    /\ epKind \in Kinds
    /\ closed = FALSE
    /\ handle = [x \in Entities |-> FALSE]
    /\ declared = [x \in Entities |-> FALSE]
    /\ undCalls = [x \in Entities |-> 0]
    /\ cPc = [t \in Closers |-> Idle]
    /\ cFailed = [t \in Closers |-> FALSE]
    /\ cLate = [t \in Closers |-> FALSE]
    /\ cResult = [t \in Closers |-> NoResult]
    /\ cReturned = FALSE
    /\ cOverlap = FALSE
    /\ cCalls = 0
    /\ ctorPc = "new"

\* publisher.py:54-60, subscriber.py:67-73, service_server.py:60-83  the
\* session is obtained and the message types are registered; a failure
\* propagates out of the constructor.
Ctor_ResolveType ==
    /\ ctorPc = "new"
    /\ \E raises \in BOOLEAN : ctorPc' = IF raises THEN "raised" ELSE "hash"
    /\ UNCHANGED closeVars

\* publisher.py:63-98, subscriber.py:76-111, service_server.py:86-165  the
\* type hash is taken or computed; without a definition ValueError is raised.
Ctor_TypeHash ==
    /\ ctorPc = "hash"
    /\ \E raises \in BOOLEAN : ctorPc' = IF raises THEN "raised" ELSE "node_token"
    /\ UNCHANGED closeVars

\* publisher.py:143, subscriber.py:176, service_server.py:219
\* "self.node_token = ...liveliness.declare_token(node_token_keyexpr)",
\* inside _declare_liveliness_tokens; declare_token may raise.
Ctor_DeclareNodeToken ==
    /\ ctorPc = "node_token"
    /\ \E raises \in BOOLEAN :
          IF raises
             THEN ctorPc' = "raised" /\ UNCHANGED closeVars
             ELSE /\ ctorPc' = "ep_token"
                  /\ handle' = [handle EXCEPT !["node"] = TRUE]
                  /\ declared' = [declared EXCEPT !["node"] = TRUE]
                  /\ UNCHANGED <<epKind, closed, undCalls, cPc, cFailed, cLate, cResult,
                                 cReturned, cOverlap, cCalls>>

\* publisher.py:144, subscriber.py:177, service_server.py:220  the MP, MS
\* or SS token is declared; declare_token may raise.
Ctor_DeclareEndpointToken ==
    /\ ctorPc = "ep_token"
    /\ \E raises \in BOOLEAN :
          IF raises
             THEN ctorPc' = "raised" /\ UNCHANGED closeVars
             ELSE /\ ctorPc' = "data"
                  /\ handle' = [handle EXCEPT !["ep"] = TRUE]
                  /\ declared' = [declared EXCEPT !["ep"] = TRUE]
                  /\ UNCHANGED <<epKind, closed, undCalls, cPc, cFailed, cLate, cResult,
                                 cReturned, cOverlap, cCalls>>

\* publisher.py:115, subscriber.py:126, service_server.py:188-192
\* declare_publisher / declare_subscriber / declare_queryable, after the
\* tokens; the call may raise.
Ctor_DeclareData ==
    /\ ctorPc = "data"
    /\ \E raises \in BOOLEAN :
          IF raises
             THEN ctorPc' = "raised" /\ UNCHANGED closeVars
             ELSE /\ ctorPc' = "flag"
                  /\ handle' = [handle EXCEPT !["data"] = TRUE]
                  /\ declared' = [declared EXCEPT !["data"] = TRUE]
                  /\ UNCHANGED <<epKind, closed, undCalls, cPc, cFailed, cLate, cResult,
                                 cReturned, cOverlap, cCalls>>

\* publisher.py:118-119, subscriber.py:127, service_server.py:195
\* "self._closed = False": the constructor returns the endpoint.
Ctor_Return ==
    /\ ctorPc = "flag"
    /\ ctorPc' = "returned"
    /\ closed' = FALSE
    /\ UNCHANGED <<epKind, handle, declared, undCalls, cPc, cFailed, cLate, cResult,
                   cReturned, cOverlap, cCalls>>

\* The constructor, and close() on the endpoint it returned.
NextConstruct ==
    \/ Ctor_ResolveType /\ UNCHANGED <<instVars, idVars, pubVars, srvVars, subVars, sessVars, regVars, fnVars, dlvVars>>
    \/ Ctor_TypeHash /\ UNCHANGED <<instVars, idVars, pubVars, srvVars, subVars, sessVars, regVars, fnVars, dlvVars>>
    \/ Ctor_DeclareNodeToken /\ UNCHANGED <<instVars, idVars, pubVars, srvVars, subVars, sessVars, regVars, fnVars, dlvVars>>
    \/ Ctor_DeclareEndpointToken /\ UNCHANGED <<instVars, idVars, pubVars, srvVars, subVars, sessVars, regVars, fnVars, dlvVars>>
    \/ Ctor_DeclareData /\ UNCHANGED <<instVars, idVars, pubVars, srvVars, subVars, sessVars, regVars, fnVars, dlvVars>>
    \/ Ctor_Return /\ UNCHANGED <<instVars, idVars, pubVars, srvVars, subVars, sessVars, regVars, fnVars, dlvVars>>
    \/ ctorPc = "returned" /\ NextClose

\* publish() on a publisher after close(): threads call close(), and once a
\* close() has returned and none is in progress, threads call publish().
NextPublishAfterClose ==
    \/ pCalls = 0 /\ NextClose
    \/ (cReturned /\ \A t \in Closers : cPc[t] = Idle) /\ NextPublish

\* get_instance and close() on the session it made: threads call
\* get_instance, and once a call has returned the session threads call
\* close() on it.
NextSessionLifecycle ==
    \/ NextInstance
    \/ (\E t \in Threads : giRet[t] # NoInstance) /\ NextSessionClose

\* ------------------------------------------------------------ specification
\* The session and an endpoint after construction.
InitSession ==
    /\ InitInstance
    /\ InitIds
    /\ InitClose
    /\ InitPublish
    /\ InitServer
    /\ InitSubscriber
    /\ InitSessionClose
    /\ InitRegister
    /\ InitConstructed

Init ==
    /\ InitSession
    /\ InitFunctions
    /\ InitDelivery

Next ==
    \/ NextInstance
    \/ NextIds
    \/ NextClose
    \/ NextPublish
    \/ NextServer
    \/ NextSubscriber
    \/ NextSessionClose
    \/ NextRegister
    \/ NextDomain
    \/ NextDdsType
    \/ NextMangle
    \/ NextTypeHash
    \/ NextAttachment
    \/ NextLoad
    \/ NextServerInit
    \/ NextDelivery
    \/ NextDiscovery
    \/ NextConstruct
    \/ NextPublishAfterClose
    \/ NextSessionLifecycle

Spec == Init /\ [][Next]_vars

\* The subsystems share no state, so each is also checked on its own.
\* The session and the publisher are checked with the endpoint a publisher.
InitPublisher == Init /\ epKind = "pub"
SpecInstance == InitPublisher /\ [][NextInstance]_vars
SpecIds == InitPublisher /\ [][NextIds]_vars
SpecClose == Init /\ [][NextClose]_vars
SpecPublish == InitPublisher /\ [][NextPublish]_vars
SpecSessionClose == InitPublisher /\ [][NextSessionClose]_vars
SpecRegister == InitPublisher /\ [][NextRegister]_vars
\* The query handler is checked with the endpoint a service server.
InitServiceServer == Init /\ epKind = "srv"
SpecServer == InitServiceServer /\ [][NextServer]_vars
\* The subscriber's constructor and listener are checked with the endpoint a
\* subscriber.
InitSubscriberEndpoint == Init /\ epKind = "sub"
SpecSubscriber == InitSubscriberEndpoint /\ [][NextSubscriber]_vars
\* close() of a subscriber against its listener: the subscriber has been
\* constructed (with qos=None, so without a history query) and threads call
\* close() while Zenoh's threads run _listener.
ConstructedSubscriber ==
    /\ subPc = "ready"
    /\ subQos = [type |-> "none", durability |-> "", depth |-> 0]
    /\ qos_profile = DEFAULT_QOS_PROFILE
    /\ gets = <<>>
    /\ publishers = <<>>
    /\ hIdx = 0
    /\ smp = [s \in Samples |-> NoSample]
InitShutdown ==
    /\ InitInstance
    /\ InitIds
    /\ InitClose
    /\ epKind = "sub"
    /\ InitPublish
    /\ InitServer
    /\ ConstructedSubscriber
    /\ InitSessionClose
    /\ InitRegister
    /\ InitFunctions
    /\ InitDelivery
    /\ InitConstructed
NextShutdown ==
    \/ NextClose
    \/ NextListener
SpecShutdown == InitShutdown /\ [][NextShutdown]_vars
\* Delivery from the publishers to the subscriber's callback. Zenoh's
\* threads run the listener for every sample routed to a declared
\* subscriber, so each publisher's listener step is weakly fair.
InitDeliveryRun == InitSession /\ InitFunctions /\ InitDeliveryEndpoints /\ epKind = "sub"
SpecDelivery ==
    /\ InitDeliveryRun
    /\ [][NextDelivery]_vars
    /\ \A p \in DeliveryPublishers : WF_dlvVars(D_Listener(p))
\* The functions are checked one call at a time, over the arguments drawn
\* at the start.
InitDomainCall == InitSession /\ InitDomain /\ InitDelivery
SpecDomain == InitDomainCall /\ [][NextDomain]_vars
InitDdsTypeCall == InitSession /\ InitDdsType /\ InitDelivery /\ epKind = "pub"
SpecDdsType == InitDdsTypeCall /\ [][NextDdsType]_vars
InitMangleCall == InitSession /\ InitMangle /\ InitDelivery /\ epKind = "pub"
SpecMangle == InitMangleCall /\ [][NextMangle]_vars
InitTypeHashCall == InitSession /\ InitTypeHash /\ InitDelivery /\ epKind = "pub"
SpecTypeHash == InitTypeHashCall /\ [][NextTypeHash]_vars
InitAttachmentCall == InitSession /\ InitAttachment /\ InitDelivery /\ epKind = "pub"
SpecAttachment == InitAttachmentCall /\ [][NextAttachment]_vars
InitLoadCall == InitSession /\ InitLoad /\ InitDelivery /\ epKind = "pub"
SpecLoad == InitLoadCall /\ [][NextLoad]_vars
InitServerInitCall == InitSession /\ InitServerInit /\ InitDelivery /\ epKind = "srv"
SpecServerInit == InitServerInitCall /\ [][NextServerInit]_vars
InitDiscoveryCall == InitSession /\ InitDiscovery /\ InitDelivery /\ epKind = "sub"
SpecDiscovery == InitDiscoveryCall /\ [][NextDiscovery]_vars
\* An endpoint of each kind from its constructor to its close().
InitConstructCall ==
    /\ InitInstance
    /\ InitIds
    /\ InitConstruct
    /\ InitPublish
    /\ InitServer
    /\ InitSubscriber
    /\ InitSessionClose
    /\ InitRegister
    /\ InitFunctions
    /\ InitDelivery
SpecConstruct == InitConstructCall /\ [][NextConstruct]_vars
\* The session from its first get_instance to the calls after its close().
SpecSessionLifecycle == InitPublisher /\ [][NextSessionLifecycle]_vars
\* publish() on a closed publisher.
SpecPublishAfterClose == InitPublisher /\ [][NextPublishAfterClose]_vars

\* ------------------------------------------------------------------ claims

\* C1: whatever the interleaving of threads calling get_instance while no
\* instance exists, zenoh.open is called at most once (exactly once as soon as
\* a call has returned) and every call returns that one session object.
C1_SingletonOpenedOnce ==
    /\ openCount <= 1
    /\ \A t \in Threads :
          giPc[t] = "done" => /\ openCount = 1
                              /\ giRet[t] # NoInstance
                              /\ giRet[t] = instance
    /\ \A t, u \in Threads :
          (giPc[t] = "done" /\ giPc[u] = "done") => giRet[t] = giRet[u]

\* A call has returned the session while another thread, which saw the slot
\* empty at the outer check, is inside the lock about to check again.
C1_Witness ==
    \E t, u \in Threads :
        /\ t # u
        /\ giPc[t] = "done"
        /\ giRet[t] = instance
        /\ giPc[u] = "inner"
        /\ instance # NoInstance

\* The values allocator k has handed out: the returned ones and those held in
\* the local variable of a call that has read the counter.
IdHolders(k) == {t \in Threads : idKind[t] = k /\ idPc[t] \in {"load", "store", "release"}}
IdHanded(k) == {idReturned[k][i] : i \in 1..Len(idReturned[k])} \cup {idLocal[t] : t \in IdHolders(k)}

\* C2: for each allocator, at every moment and under every interleaving, n
\* calls have been handed exactly the values 0..n-1, each once (no duplicate,
\* no gap), so the first call gets 0 and each later call one more; when no
\* call is in progress the counter equals the number of calls made.
C2_IdsDenseAndUnique ==
    \A k \in {"node", "entity"} :
        LET n == Len(idReturned[k]) + Cardinality(IdHolders(k)) IN
        /\ IdHanded(k) = 0..(n - 1)
        /\ \A i, j \in 1..Len(idReturned[k]) :
              i # j => idReturned[k][i] # idReturned[k][j]
        /\ \A t, u \in IdHolders(k) : t # u => idLocal[t] # idLocal[u]
        /\ (\A t \in Threads : idPc[t] = "idle") => Counter(k) = Len(idReturned[k])

\* Both allocators have returned values while a thread waits for the lock
\* another thread holds.
C2_Witness ==
    /\ Len(idReturned["node"]) >= 1
    /\ Len(idReturned["entity"]) >= 1
    /\ \E t, u \in Threads :
          /\ t # u
          /\ idPc[t] = "acquire"
          /\ sessLock = u
          /\ idKind[t] = idKind[u]

\* C3: a close() that begins after an earlier close() of the endpoint has
\* returned never enters the cleanup (it performs no undeclare) and does not
\* raise; as long as close() calls do not overlap, each token and the data
\* entity is undeclared at most once.
C3_LaterCloseIsNoOp ==
    /\ \A t \in Closers :
          (cLate[t] /\ cPc[t] # Idle) => cPc[t].phase \in {"entry", "ret"}
    /\ \A t \in Closers : cLate[t] => cResult[t].ended # "raised"
    /\ ~cOverlap => \A x \in Entities : undCalls[x] <= 1

\* A second, later close() has returned and the first one did undeclare.
C3_Witness ==
    /\ ~cOverlap
    /\ cCalls >= 2
    /\ \E t \in Closers :
          cLate[t] /\ cPc[t] = Idle /\ cResult[t].ended = "returned"
    /\ \A x \in Entities : undCalls[x] = 1

\* C4: with close() called from concurrent threads, each token and the data
\* entity is undeclared at most once.
C4_ConcurrentCloseUndeclaresOnce ==
    \A x \in Entities : undCalls[x] <= 1

\* C5: every close() call ends by returning, never by raising, and _closed is
\* true when it returns, also when an undeclare raised inside it.
C5_CloseNeverRaises ==
    \A t \in Closers :
        cResult[t].ended # "none" =>
            /\ cResult[t].ended = "returned"
            /\ cResult[t].closedSeen

\* A close() in which an undeclare raised has returned.
C5_Witness ==
    \E t \in Closers :
        /\ cResult[t].ended = "returned"
        /\ cResult[t].failed
        /\ cResult[t].closedSeen

\* C6: once a close() has returned, neither token nor the data entity is
\* still declared.
C6_NothingDeclaredAfterClose ==
    cReturned => \A x \in Entities : ~declared[x]

\* The sequence numbers carried by the samples on the wire, in put order.
WireSeq == [i \in 1..Len(wire) |-> ParseAttachment(wire[i]).sequence_id]

\* C7: as long as publish() calls do not overlap, the k-th sample put on the
\* wire carries sequence number k-1, a publish() that returned has raised
\* sequence_number by exactly one, a publish() that raised has left it
\* unchanged, and between calls sequence_number is the number of samples put.
C7_SequenceCountsSuccessfulPublishes ==
    ~pOverlap =>
        /\ \A i \in 1..Len(wire) : ParseAttachment(wire[i]).valid /\ WireSeq[i] = i - 1
        /\ \A t \in PubThreads :
              /\ pResult[t].ended = "returned" => pResult[t].seqAfter = pResult[t].seqBefore + 1
              /\ pResult[t].ended = "raised" => pResult[t].seqAfter = pResult[t].seqBefore
        /\ (\A t \in PubThreads : pPc[t] = "idle") => sequence_number = Len(wire)

\* Two samples are on the wire and a later publish() has raised, with no two
\* calls overlapping.
C7_Witness ==
    /\ ~pOverlap
    /\ Len(wire) = 2
    /\ sequence_number = 2
    /\ \E t \in PubThreads : pPc[t] = "idle" /\ pResult[t].ended = "raised"

\* C8: under any interleaving of publish() calls, concurrent ones included,
\* the sequence numbers on the wire are strictly increasing in put order.
C8_WireSequenceStrictlyIncreasing ==
    \A i, j \in 1..Len(wire) : i < j => WireSeq[i] < WireSeq[j]

\* C9: every data reply carries an attachment whose sequence number and GID
\* are those of the attachment of the query it answers, whatever other
\* queries are being handled at the same time; its timestamp is the server's
\* clock value, not the request's.
C9_ReplyEchoesRequestSeqAndGid ==
    \A q \in Queries :
        qry[q].dataCalls > 0 =>
            LET request == ParseAttachment(qry[q].attachment.bytes)
                reply == ParseAttachment(qry[q].dataAtt)
            IN  /\ request.valid
                /\ reply.valid
                /\ reply.sequence_id = request.sequence_id
                /\ reply.gid = request.gid
                /\ reply.timestamp_ns \in Clock
                /\ qry[q].dataCalls = 1

\* A query of client B (sequence number 300) has been answered while a query
\* of client A (sequence number 0) is still inside the handler.
C9_Witness ==
    \E q, r \in Queries :
        /\ q # r
        /\ qry[q].pc = "done"
        /\ qry[q].dataSent
        /\ ParseAttachment(qry[q].dataAtt).sequence_id = 300
        /\ ParseAttachment(qry[q].dataAtt).gid = ClientGidB
        /\ qry[r].pc = "reply"
        /\ qry[r].attachment_data.gid = ClientGidA

\* A query the claim calls malformed, judged on the query itself: payload
\* absent or empty, or (the handler having got as far as the attachment)
\* attachment absent, shorter than 17 bytes, or shorter than 17 bytes plus the
\* GID length its byte 17 announces.
MalformedQuery(query) ==
    \/ query.payload \in {"absent", "empty"}
    \/ /\ query.attRead
       /\ \/ ~query.attachment.present
          \/ Len(query.attachment.bytes) < 17
          \/ Len(query.attachment.bytes) < 17 + query.attachment.bytes[17]

\* C10: for a malformed query the handler calls reply_err (and the error
\* reply is sent unless reply_err itself raised), never calls the user
\* callback and never calls query.reply.
C10_MalformedQueryGetsErrorReply ==
    \A q \in Queries :
        MalformedQuery(qry[q]) =>
            /\ qry[q].pc = "done"
            /\ qry[q].errCalled
            /\ qry[q].cbCalls = 0
            /\ qry[q].dataCalls = 0

\* A query with a good payload whose attachment is cut inside the GID has
\* been answered with an error reply.
C10_Witness ==
    \E q \in Queries :
        /\ qry[q].pc = "done"
        /\ qry[q].payload = "cdr"
        /\ qry[q].attachment.present
        /\ Len(qry[q].attachment.bytes) = 32
        /\ qry[q].errSent
        /\ qry[q].cbCalls = 0

\* C11: when the user callback raises or returns None, reply_err is called for
\* the query and query.reply is not, the handler returns (no exception leaves
\* it), and the queryable is left declared: a query waiting for the callback
\* can always be passed to it, whatever happened to earlier queries.
C11_CallbackFailureGetsErrorReply ==
    /\ \A q \in Queries :
          /\ qry[q].pc # "raised"
          /\ qry[q].cbResult \in {"none", "raises"} =>
                /\ qry[q].pc = "done"
                /\ qry[q].errCalled
                /\ qry[q].dataCalls = 0
                /\ qry[q].cbCalls = 1
          /\ qry[q].pc = "callback" => ENABLED QH_Callback(q)
    /\ declared["data"] /\ handle["data"]

\* A query whose callback raised got its error reply, and a well-formed query
\* delivered after that was passed to the callback and answered.
C11_Witness ==
    \E q, r \in Queries :
        /\ qry[q].pc = "done" /\ qry[q].cbResult = "raises" /\ qry[q].errSent
        /\ qry[r].afterFail
        /\ qry[r].pc = "done" /\ qry[r].cbResult = "response" /\ qry[r].dataSent
        /\ declared["data"]

AsksTransientLocal(qos) ==
    qos.type \in {"profile", "str"} /\ qos.durability = "transient_local"

AskedDepth(qos) ==
    IF qos.type = "str" /\ qos.depth = 0 THEN DEFAULT_QOS_PROFILE.history_depth ELSE qos.depth
HistoryGets == {i \in 1..Len(gets) : gets[i].kind = "history"}

\* C14: gets are issued only once the data subscriber is declared; the
\* discovered list names each zenoh id once; each of them gets at most one
\* history get, and exactly one by the time the constructor returns, also
\* after another one's get failed; _max is the qos history depth; and every
\* ok reply has gone through _process_sample (its callback is called exactly
\* when the payload deserializes) before the loop goes on.
C14_OneHistoryGetPerPublisher ==
    /\ gets # <<>> => subPc \notin {"new", "raised"}
    /\ \A i, j \in 1..Len(publishers) : i # j => publishers[i] # publishers[j]
    /\ \A i \in HistoryGets :
          /\ gets[i].zenoh_id = publishers[i - 1]
          /\ gets[i].max = AskedDepth(subQos)
          /\ Cardinality({s \in Samples : smp[s].get = i}) = gets[i].ok
    /\ Cardinality(HistoryGets) <= Len(publishers)
    /\ subPc = "ready" => Cardinality(HistoryGets) = Len(publishers)
    /\ \A s \in Samples :
          (smp[s].get > 0 /\ (smp[s].get < Len(gets) \/ subPc # "iter")) =>
              /\ smp[s].pc = "done"
              /\ smp[s].cbCalls = (IF smp[s].payload = "cdr" THEN 1 ELSE 0)

\* Two publishers were discovered; the get to the first failed, the second
\* was still queried and its cached sample reached the callback.
C14_Witness ==
    /\ subPc = "ready"
    /\ Len(publishers) = 2
    /\ Len(gets) = 3
    /\ gets[2].failed
    /\ gets[3].ok = 1
    /\ \E s \in Samples : smp[s].get = 3 /\ smp[s].payload = "cdr" /\ smp[s].cbCalls = 1

\* C15: once a close() of the subscriber or the service server has returned,
\* no step invokes the user callback any more.
C15_NoCallbackAfterClose ==
    [][cReturned => /\ \A s \in Samples : smp'[s].cbCalls = smp[s].cbCalls
                    /\ \A q \in Queries : qry'[q].cbCalls = qry[q].cbCalls]_vars

\* C16: the session a get_instance call returns is connected to the
\* router_ip and router_port passed to that call.
C16_InstanceKeyedByRouter ==
    \A t \in Threads :
        giPc[t] = "done" => connected[giRet[t]] = giArg[t]

\* C17: over any sequence of close() calls on one ZenohSession, the Zenoh
\* session is closed at most once and no call raises.
C17_SessionCloseIdempotent ==
    /\ sessCloseCalls <= 1
    /\ \A t \in Closers : scResult[t] # "raised"

\* C18: once the last endpoint opened on the session has been closed, the
\* Zenoh session is torn down; while the endpoint is open and the session was
\* not closed explicitly, the session is open.
C18_SessionTornDownWithLastEndpoint ==
    /\ (cReturned /\ closed) => ~session_open
    /\ (~closed /\ sessCloseCalls = 0) => session_open

\* C19: when a name was registered at the time register_message_type was
\* called, the store still holds the same class and definition for it (nothing
\* removes or replaces a registered type), and a call that passed the
\* registered definition again has returned that very class, without raising.
C19_IdenticalReregistrationIsNoOp ==
    \A t \in RegThreads :
        rSeen[t].registered =>
            /\ store_types[rArg[t].name] = rSeen[t].cls
            /\ registered_types[rArg[t].name] = rSeen[t].definition
            /\ (rRet[t].ended # "none" /\ rArg[t].definition = rSeen[t].definition) =>
                  /\ rRet[t].ended = "returned"
                  /\ rRet[t].cls = rSeen[t].cls

\* A type was registered by one call, and a later call with the identical
\* definition returned the class of the first one; no second class was
\* generated.
C19_Witness ==
    \E t, u \in RegThreads :
        /\ t # u
        /\ rRet[u].ended = "returned" /\ ~rSeen[u].registered
        /\ rArg[u].definition # ""
        /\ rSeen[t].registered /\ rArg[t] = rArg[u]
        /\ rRet[t].ended = "returned" /\ rRet[t].cls = rRet[u].cls
        /\ classCount = 1

\* C20: a call that passes, for a registered name, a definition other than
\* the registered one ends by raising, and the stored type is unchanged.
C20_ConflictingReregistrationIsError ==
    \A t \in RegThreads :
        (/\ rSeen[t].registered
         /\ rArg[t].definition \notin {"", rSeen[t].definition}
         /\ rRet[t].ended # "none") =>
            /\ rRet[t].ended = "raised"
            /\ store_types[rArg[t].name] = rSeen[t].cls

\* C21: registration is serialized: two threads are never both past the
\* check of session.py:44 for the same name, so store.register never runs
\* for two calls registering the same type, and two calls that returned for
\* the same name with a definition returned the same class.
C21_RegistrationIsSerialized ==
    \A t, u \in RegThreads :
        (t # u /\ rArg[t].name = rArg[u].name) =>
            /\ ~(rPc[t] \in {"parse", "record"} /\ rPc[u] \in {"parse", "record"})
            /\ (/\ rRet[t].ended = "returned" /\ rRet[u].ended = "returned"
                /\ rArg[t].definition # "" /\ rArg[u].definition # "") =>
                   rRet[t].cls = rRet[u].cls

\* C22: an endpoint of any class built without a domain_id uses the value of
\* ROS_DOMAIN_ID, 0 when it is unset, as its domain, in its data key
\* expression and in its liveliness tokens (and one built with a domain_id
\* uses that), so a publisher and a subscriber built with the default use
\* the same domain.
C22_DefaultDomainFromEnvironment ==
    (fnName = "domain" /\ fnDone) =>
        LET env == fnArgs.env
            expected == IF fnArgs.domain_id.passed THEN fnArgs.domain_id.value
                        ELSE IF env.set THEN env.value ELSE 0
        IN  /\ fnResult.domain_id = expected
            /\ fnResult.keyexpr[1] = expected
            /\ \A token \in fnResult.tokens : token[2] = expected
            /\ EndpointDomain("pub", NotPassed, env) = EndpointDomain("sub", NotPassed, env)

C24_DdsTypeName ==
    (fnName = "ros2_to_dds_type" /\ fnDone) =>
        IF Len(fnArgs) = 3
           THEN fnArgs[2] \in {MsgPart, SrvPart} =>
                   fnResult = fnArgs[1] \o ColonColon \o fnArgs[2] \o ColonColon \o DdsInfix
                                  \o ColonColon
                                  \o (IF fnArgs[3] = <<>> THEN <<>>
                                      ELSE <<Upper(fnArgs[3][1])>> \o Tail(fnArgs[3]))
                                  \o <<"_">>
           ELSE fnResult = Join(fnArgs, ColonColon)

\* C25 as stated: mangle_name gives "%" for the empty name and for "/", and
\* else the name with every "/" replaced by "%"; and for every name other
\* than the root (the empty name and "/" both mangle to the root's "%"),
\* replacing every "%" by "/" in the result gives the name back.
C25_MangleRoundTripEveryName ==
    (fnName = "mangle_name" /\ fnDone) =>
        /\ fnResult = (IF fnArgs \in {<<>>, <<"/">>} THEN <<"%">>
                       ELSE [i \in 1..Len(fnArgs) |->
                                IF fnArgs[i] = "/" THEN "%" ELSE fnArgs[i]])
        /\ fnArgs \notin {<<>>, <<"/">>} => Replace(fnResult, "%", <<"/">>) = fnArgs

\* C25 amended: mangle_name gives "%" for the empty name and for "/", and
\* else the name with every "/" replaced by "%"; for every name that is not
\* empty, is not "/" and holds no "%", replacing every "%" by "/" in the
\* result gives the name back.
C25_MangleRoundTrip ==
    (fnName = "mangle_name" /\ fnDone) =>
        /\ fnResult = (IF fnArgs \in {<<>>, <<"/">>} THEN <<"%">>
                       ELSE [i \in 1..Len(fnArgs) |->
                                IF fnArgs[i] = "/" THEN "%" ELSE fnArgs[i]])
        /\ (fnArgs \notin {<<>>, <<"/">>} /\ \A i \in 1..Len(fnArgs) : fnArgs[i] # "%") =>
              Replace(fnResult, "%", <<"/">>) = fnArgs

\* mangle_name has returned for a name with two slashes and a letter between.
C25_Witness ==
    /\ fnName = "mangle_name" /\ fnDone
    /\ fnArgs = <<"/", "a", "/", "a">>
    /\ fnResult = <<"%", "a", "%", "a">>

\* C26: a call of get_type_hash that passes no message definition, for a
\* type none is known for, raises ValueError; and no call returns the
\* placeholder hash, RIHS01_ followed by 64 zeros.
C26_NoPlaceholderHash ==
    (fnName = "get_type_hash" /\ fnDone) =>
        /\ (fnArgs.keywords = {} /\ fnArgs.msg_type.pkg = "unknown") =>
              fnResult.raised = "ValueError"
        /\ fnResult.value # ZeroHash

\* C27: a call of get_type_hash for std_msgs/msg/String returns
\* RIHS01_df66...1a18, a call for geometry_msgs/msg/Twist returns
\* RIHS01_9c45...8d2a, whether or not the definition and the dependencies
\* are passed, and every hash returned is RIHS01_ followed by 64 hexadecimal
\* digits (32 bytes).
C27_TypeHashVectors ==
    (fnName = "get_type_hash" /\ fnDone) =>
        /\ fnArgs.msg_type = TypeOf("std_msgs", "msg", "String") =>
              (fnResult.raised = "none" /\ fnResult.value = StringHash)
        /\ fnArgs.msg_type = TypeOf("geometry_msgs", "msg", "Twist") =>
              /\ fnResult.raised = "none"
              /\ fnResult.value =
                    [prefix |-> "RIHS01_",
                     digest |-> <<156, 69, 191, 22, 254, 9, 131, 216, 14, 60, 254, 117, 13, 104, 53, 132,
                                61, 38, 90, 154, 108, 70, 189, 46, 96, 159, 205, 221, 230, 251, 141, 42>>]
        /\ fnResult.raised = "none" =>
              /\ fnResult.value.prefix = "RIHS01_"
              /\ Len(fnResult.value.digest) = 32
              /\ \A i \in 1..32 : fnResult.value.digest[i] \in 0..255

\* Byte i (from 1) of n written little-endian.
RECURSIVE ByteLE(_, _)
ByteLE(n, i) == IF i = 1 THEN n % 256 ELSE ByteLE(n \div 256, i - 1)

\* C28: the attachment a publisher or the server builds is the sequence
\* number as 8 bytes little-endian, the timestamp as 8 bytes little-endian,
\* one byte holding the length of the GID, then the GID; and
\* _parse_attachment gives back that sequence number, timestamp and GID.
C28_AttachmentRoundTrip ==
    (fnName = "attachment" /\ fnDone) =>
        LET att == fnResult.attachment
            gid == GidOfLen(fnArgs.gid_len)
        IN  /\ Len(att) = 17 + fnArgs.gid_len
            /\ \A i \in 1..8 : /\ att[i] = ByteLE(fnArgs.seq, i)
                                /\ att[8 + i] = ByteLE(fnArgs.timestamp, i)
            /\ att[17] = fnArgs.gid_len
            /\ \A i \in 1..fnArgs.gid_len : att[17 + i] = gid[i]
            /\ fnResult.parsed = [valid |-> TRUE, sequence_id |-> fnArgs.seq,
                                  timestamp_ns |-> fnArgs.timestamp, gid |-> gid]

\* A publisher's attachment with a sequence number of three bytes, a
\* timestamp of four and a GID of 255 bytes has been built and parsed.
C28_Witness ==
    /\ fnName = "attachment" /\ fnDone
    /\ fnArgs = [maker |-> "publisher", seq |-> 65536, timestamp |-> 2147483647,
                 gid_len |-> 255]
    /\ fnResult.parsed.valid
    /\ Len(fnResult.parsed.gid) = 255

\* C29: a call of register_message_type with an empty definition, for a
\* type the message registry finds no .msg file for and nobody has
\* registered with a definition, ends by raising; it does not return.
C29_MissingDefinitionRaises ==
    \A t \in RegThreads :
        (/\ rRet[t].ended # "none"
         /\ rArg[t].definition = ""
         /\ RegistryFile(rArg[t].name) = ""
         /\ registered_types[rArg[t].name] = ""
         /\ store_defs[rArg[t].name] = "") =>
            rRet[t].ended = "raised"

\* The types with a file that the fields of type's file refer to.
RefersTo(files, type) == IF files[type].exists THEN files[type].deps ELSE {}
\* The types reached from the types of S along at most n references.
RECURSIVE ReachedFrom(_, _, _)
ReachedFrom(files, S, n) ==
    IF n = 0 THEN S
    ELSE ReachedFrom(files, S \cup UNION {RefersTo(files, type) : type \in S}, n - 1)
\* The types of msg_type's dependency closure that lie on a cycle.
OnCycle(files, msg_type) ==
    {type \in ReachedFrom(files, {msg_type}, Cardinality(DepTypes)) :
        /\ files[type].exists
        /\ type \in ReachedFrom(files, RefersTo(files, type), Cardinality(DepTypes))}

\* C30: loading a type whose dependency closure holds a cycle is rejected
\* (load_message_type returns False), and no type of the cycle is
\* registered.
C30_CycleRejected ==
    (fnName = "load_message_type" /\ fnDone
        /\ OnCycle(fnArgs.files, fnArgs.msg_type) # {}) =>
            /\ ~fnResult.returned
            /\ fnResult.registered \cap OnCycle(fnArgs.files, fnArgs.msg_type) = {}

\* C31: a service server constructed with mode="queue" exists and works as
\* a queue: the constructor returns, and the server has take_request and
\* send_response, through which the queued requests are taken and answered.
C31_QueueModeServer ==
    (fnName = "ROS2ServiceServer" /\ fnDone /\ "mode" \in fnArgs.keywords) =>
        /\ fnResult.raised = "none"
        /\ {"take_request", "send_response"} \subseteq fnResult.methods

\* A topic name: absolute, its segments not empty and free of "%".
ValidTopic(topic) ==
    /\ Len(topic) >= 2
    /\ topic[1] = "/" /\ topic[Len(topic)] # "/"
    /\ \A i \in 1..Len(topic) : topic[i] # "%"
    /\ \A i \in 1..(Len(topic) - 1) : ~(topic[i] = "/" /\ topic[i + 1] = "/")

\* C32: for every topic name, of one segment or several, the discovery
\* selector of a subscriber matches the MP token of a publisher on the same
\* domain, topic, type and type hash, and the session id of that publisher
\* is what the subscriber takes from index 2 of the matched key.
C32_SelectorMatchesPublisherToken ==
    (fnName = "_discover_publishers" /\ fnDone /\ ValidTopic(fnArgs.topic)) =>
        /\ fnResult.matched
        /\ fnResult.publishers = {SessionId}

\* C33: the user callback of a subscriber is invoked only for samples that
\* Zenoh hands to _listener on its own thread; no invocation of the callback
\* is for a sample processed by the thread that constructs the subscriber
\* (a reply of a history get, processed inside the constructor's loop).
C33_CallbackNeverOnConstructingThread ==
    \A s \in Samples : smp[s].cbCalls > 0 => smp[s].get = 0

\* str(n) of a non-negative integer, as its decimal digits.
Digits == <<"0", "1", "2", "3", "4", "5", "6", "7", "8", "9">>
RECURSIVE Str(_)
Str(n) == IF n < 10 THEN <<Digits[n + 1]>> ELSE Str(n \div 10) \o <<Digits[(n % 10) + 1]>>

\* publisher.py:128-133, service_server.py:205-209  the node (NN) token of an
\* endpoint on domain 0 with the given node id.
NodeTokenKeyexpr(node_id) ==
    Slashed(<<LvPrefix, <<"0">>, SessionId, Str(node_id), Str(node_id), <<"NN">>, <<"%">>,
              mangle_name(<<"/">>), NodeName>>)

\* publisher.py:135-141, service_server.py:211-217  the endpoint token (MP,
\* MS or SS) of an endpoint on domain 0 for the name /a.
EndpointTokenKeyexpr(node_id, entity_id, kind) ==
    Slashed(<<LvPrefix, <<"0">>, SessionId, Str(node_id), Str(entity_id), <<kind>>, <<"%">>,
              mangle_name(<<"/">>), NodeName, mangle_name(<<"/", "a">>),
              <<StringDdsType>>, <<StringTypeHash>>, DefaultQos>>)

EndpointKinds == {"MP", "MS", "SS"}
\* The ids the allocator k has returned to constructors.
IdsGiven(k) == {idReturned[k][i] : i \in 1..Len(idReturned[k])}

\* C34: under every interleaving of the constructors' calls on one session,
\* no node id and no entity id is returned to two endpoints, and so the node
\* tokens of two endpoints differ, the endpoint tokens of two endpoints
\* differ whatever their kinds and node ids, and no node token equals an
\* endpoint token.
C34_EndpointIdsAndTokensDistinct ==
    /\ \A k \in {"node", "entity"} : Cardinality(IdsGiven(k)) = Len(idReturned[k])
    /\ \A i, j \in 1..Len(idReturned["node"]) :
          i # j => NodeTokenKeyexpr(idReturned["node"][i]) # NodeTokenKeyexpr(idReturned["node"][j])
    /\ \A i, j \in 1..Len(idReturned["entity"]) :
          i # j => \A n1, n2 \in IdsGiven("node") : \A k1, k2 \in EndpointKinds :
                      EndpointTokenKeyexpr(n1, idReturned["entity"][i], k1)
                          # EndpointTokenKeyexpr(n2, idReturned["entity"][j], k2)
    /\ \A n1, n2 \in IdsGiven("node") : \A e \in IdsGiven("entity") : \A k \in EndpointKinds :
          NodeTokenKeyexpr(n1) # EndpointTokenKeyexpr(n2, e, k)

\* Two endpoints have been constructed: each allocator has returned twice.
C34_Witness ==
    /\ Len(idReturned["node"]) = 2
    /\ Len(idReturned["entity"]) = 2

\* C35: at every moment, in the constructor, between construction and
\* close() and during and after close(), a declared endpoint token (MP, MS
\* or SS) goes with a declared data publisher, data subscriber or queryable.
C35_TokenOnlyWithDataEntity ==
    declared["ep"] => declared["data"]

\* The transport's reply calls made for the query have all succeeded.
ReplyCallsSucceeded(query) ==
    /\ query.errCalled => query.errSent
    /\ query.dataCalls > 0 => query.dataSent

\* C36: no exception leaves _query_handler, and for every query the handler
\* has ended with all its reply calls successful, exactly one reply has been
\* sent: one data reply and no error reply, or one error reply and no data
\* reply.
C36_ExactlyOneReply ==
    \A q \in Queries :
        /\ qry[q].pc # "raised"
        /\ (qry[q].pc = "done" /\ ReplyCallsSucceeded(qry[q])) =>
              /\ qry[q].dataCalls <= 1
              /\ \/ qry[q].dataCalls = 1 /\ qry[q].dataSent /\ ~qry[q].errCalled
                 \/ qry[q].dataCalls = 0 /\ qry[q].errCalled /\ qry[q].errSent

\* One query has been answered with a data reply, and one whose request
\* could not be deserialized with an error reply.
C36_Witness ==
    \E q, r \in Queries :
        /\ qry[q].pc = "done" /\ qry[q].dataSent /\ ~qry[q].errCalled
        /\ qry[r].pc = "done" /\ qry[r].payload = "badcdr" /\ qry[r].errSent
        /\ qry[r].dataCalls = 0

\* C37: once the constructor of an endpoint has raised, at whichever step,
\* neither the node token nor the endpoint token it declared is declared.
C37_RaisingConstructorLeavesNoToken ==
    ctorPc = "raised" => ~declared["node"] /\ ~declared["ep"]

\* C38: a publish() call made on a publisher after a close() has returned
\* ends by raising, puts nothing on the wire and leaves sequence_number as
\* it was: once a close() has returned the wire stays empty and
\* sequence_number stays 0, and no such call returns.
C38_PublishAfterCloseRaises ==
    cReturned =>
        /\ wire = <<>>
        /\ sequence_number = 0
        /\ \A t \in PubThreads : pResult[t].ended # "returned"

\* The session close() is called on: the first (and, the slot never being
\* emptied, the only) one get_instance constructs.
ClosedSession == 1
\* A close() of the session has run to its last statement (session.py:86).
CloseCompleted == self_instance = "None"

\* C39: a get_instance call that starts after a close() of the session has
\* completed does not return that session: when its first check sends it
\* straight to "return cls._instance", the class slot does not hold the
\* closed session (the slot was cleared, and holds at most a fresh one).
C39_NoClosedSessionReturned ==
    [][\A t \in Threads :
          (CloseCompleted /\ giPc[t] = "start" /\ giPc'[t] = "return") =>
              instance # ClosedSession]_vars

\* No element occurs twice in the sequence.
NoDuplicates(seq) == \A i, j \in 1..Len(seq) : i # j => seq[i] # seq[j]
\* The references among the files: pairs of a type with a file and a type
\* its fields refer to.
References(files) == {<<type, dep>> \in DepTypes \X DepTypes : dep \in RefersTo(files, type)}

====
